---- MODULE Spec2Model ----
(***************************************************************************)
(* Model of g-valuemap: the valuation pipeline (src/valuation.py), the     *)
(* treemap and summary (src/visualization.py), the tab rendering and the   *)
(* loaders (src/app.py) and the disk cache (src/disk_cache.py).            *)
(*                                                                         *)
(* A DataFrame is a sequence of rows.  Python floats are modelled as       *)
(* exact rationals (num / den,                                             *)
(* den > 0, lowest terms) tagged "float"; NaN and None are separate tagged *)
(* values, so that "absent" and "zero" stay distinct until the code        *)
(* conflates them.  Strings that the code inspects character by character  *)
(* (the sector) are sequences of one-character strings.                    *)
(***************************************************************************)
EXTENDS Integers, Sequences, FiniteSets, TLC

VARIABLES df, out, pc, fig, stats, table, hide_neg, use_underval,
          selected, card, picks, ranking,
          disk, now, ret, sess, saved

vars == <<df, out, pc, fig, stats, table, hide_neg, use_underval,
          selected, card, picks, ranking,
          disk, now, ret, sess, saved>>

-----------------------------------------------------------------------------
(* Numbers: Python float / numpy.float64 values, NaN and None.             *)

NaN == [tag |-> "nan", num |-> 0, den |-> 1]

None == [tag |-> "none", num |-> 0, den |-> 1]

Abs(n) == IF n < 0 THEN -n ELSE n

RECURSIVE GCD(_, _)
GCD(a, b) == IF b = 0 THEN a ELSE GCD(b, a % b)

\* The rational n / d (d # 0) in lowest terms with a positive denominator.
Q(n, d) ==
    LET g == GCD(Abs(n), Abs(d))
        s == IF d < 0 THEN -1 ELSE 1
    IN  [tag |-> "float", num |-> (s * n) \div g, den |-> (s * d) \div g]

F(n) == [tag |-> "float", num |-> n, den |-> 1]

pd_notna(v) == v.tag = "float"

pd_isna(v) == v.tag # "float"

np_isnan(v) == v.tag = "nan"

\* Float comparisons: every comparison with NaN is False.
GtZero(v) == v.tag = "float" /\ v.num > 0

LeZero(v) == v.tag = "float" /\ v.num <= 0

NeZero(v) == v.tag # "float" \/ v.num # 0

\* a > b and a < b for a float a and a rational constant b = bn / bd, bd > 0.
GtRat(a, bn, bd) == a.tag = "float" /\ a.num * bd > bn * a.den

LtRat(a, bn, bd) == a.tag = "float" /\ a.num * bd < bn * a.den

\* a / b for floats; NaN propagates (b is never 0 where the code divides).
FDiv(a, b) ==
    IF a.tag # "float" \/ b.tag # "float" THEN NaN
    ELSE Q(a.num * b.den, a.den * b.num)

-----------------------------------------------------------------------------
(* Strings as character sequences: str.lower() and the `in` operator.      *)

UpperChars ==
    <<"A", "B", "C", "D", "E", "F", "G", "H", "I", "J", "K", "L", "M",
      "N", "O", "P", "Q", "R", "S", "T", "U", "V", "W", "X", "Y", "Z">>

LowerChars ==
    <<"a", "b", "c", "d", "e", "f", "g", "h", "i", "j", "k", "l", "m",
      "n", "o", "p", "q", "r", "s", "t", "u", "v", "w", "x", "y", "z">>

lower_char(c) ==
    IF \E i \in 1..Len(UpperChars) : UpperChars[i] = c
    THEN LowerChars[CHOOSE i \in 1..Len(UpperChars) : UpperChars[i] = c]
    ELSE c

lower(s) == [i \in 1..Len(s) |-> lower_char(s[i])]

\* sub in s
contains(sub, s) ==
    \E i \in 1..(Len(s) - Len(sub) + 1) : SubSeq(s, i, i + Len(sub) - 1) = sub

STR_REAL_ESTATE == <<"r", "e", "a", "l", " ", "e", "s", "t", "a", "t", "e">>

STR_REIT == <<"r", "e", "i", "t">>

-----------------------------------------------------------------------------
(* calculate_pcf                                                           *)

\* Variant of safe_float that coerces a missing value to 1.0.
safe_float_one(v) == IF pd_notna(v) THEN v ELSE F(1)

safe_float(v) == IF pd_notna(v) THEN v ELSE F(0)

\* The locals of calculate_pcf at its return: the value returned, the cash
\* flow figure and the method the selection branches settled on.
calculate_pcf_locals(row) ==
    LET market_cap    == safe_float(row.market_cap)
        sector        == lower(row.sector)
        ttm_ocf       == safe_float(row.ttm_ocf)
        ttm_ffo_proxy == safe_float(row.ttm_ffo_proxy)
        use_ffo       == (contains(STR_REAL_ESTATE, sector) \/ contains(STR_REIT, sector))
                         /\ GtZero(ttm_ffo_proxy)
        cash_flow     == IF use_ffo THEN ttm_ffo_proxy
                         ELSE IF NeZero(ttm_ocf) THEN ttm_ocf
                         ELSE NaN
        cf_method     == IF use_ffo THEN "FFO" ELSE "OCF"
    IN  IF LeZero(market_cap)
        THEN [ret |-> None, cash_flow |-> NaN, cf_method |-> "OCF", line |-> 30]
        ELSE IF LeZero(cash_flow)
        THEN [ret |-> None, cash_flow |-> cash_flow, cf_method |-> cf_method, line |-> 57]
        ELSE [ret |-> FDiv(market_cap, cash_flow), cash_flow |-> cash_flow,
              cf_method |-> cf_method, line |-> 60]

\* Variants of calculate_pcf with one step changed.
calculate_pcf_no_sign_check(row) ==
    LET l == calculate_pcf_locals(row)
    IN  IF l.line = 57 THEN FDiv(safe_float(row.market_cap), l.cash_flow) ELSE l.ret

calculate_pcf_floor_div(row) ==
    LET l == calculate_pcf_locals(row)
    IN  IF l.ret.tag = "float" THEN F(l.ret.num \div l.ret.den) ELSE l.ret

calculate_pcf_ocf_only(row) ==
    LET l == calculate_pcf_locals(row)
        ocf == safe_float(row.ttm_ocf)
    IN  IF l.line = 30 THEN l.ret
        ELSE IF LeZero(ocf) THEN None
        ELSE FDiv(safe_float(row.market_cap), IF NeZero(ocf) THEN ocf ELSE NaN)

calculate_pcf(row) == calculate_pcf_locals(row).ret

\* Variant of get_cf_method that compares the sector without lower().
get_cf_method_case_sensitive(row) ==
    IF (contains(STR_REAL_ESTATE, row.sector) \/ contains(STR_REIT, row.sector))
       /\ pd_notna(row.ttm_ffo_proxy) /\ GtZero(row.ttm_ffo_proxy)
    THEN "FFO"
    ELSE "OCF"

get_cf_method(row) ==
    LET sector        == lower(row.sector)
        ttm_ffo_proxy == row.ttm_ffo_proxy
    IN  IF (contains(STR_REAL_ESTATE, sector) \/ contains(STR_REIT, sector))
           /\ pd_notna(ttm_ffo_proxy) /\ GtZero(ttm_ffo_proxy)
        THEN "FFO"
        ELSE "OCF"

\* calculate_trend's default argument years = 5.
YEARS == 5

-----------------------------------------------------------------------------
(* calculate_trend                                                         *)
(*                                                                         *)
(* A history cell is [kind, items]: kind "dict" with items the sequence of *)
(* <<year, value>> pairs in insertion order (distinct years), or another   *)
(* kind ("none", "nan", "list") with no items for a cell that is no dict.  *)

Dict(items) == [kind |-> "dict", items |-> items]

NotADict(kind) == [kind |-> kind, items |-> <<>>]

\* `not history or not isinstance(history, dict)`: None, an empty container
\* and an empty dict are falsy; NaN is truthy but no dict.
is_nonempty_dict(history) == history.kind = "dict" /\ Len(history.items) > 0

\* sorted(items, key=lambda x: x[0]): insertion of each item in key order.
RECURSIVE insert_by_key(_, _)
insert_by_key(item, s) ==
    IF s = <<>> THEN <<item>>
    ELSE IF item[1] < Head(s)[1] THEN <<item>> \o s
    ELSE <<Head(s)>> \o insert_by_key(item, Tail(s))

RECURSIVE sorted_by_key(_)
sorted_by_key(s) ==
    IF s = <<>> THEN <<>>
    ELSE insert_by_key(s[Len(s)], sorted_by_key(SubSeq(s, 1, Len(s) - 1)))

\* Variant of last_n: s[:n].
first_n(s, n) == IF Len(s) <= n THEN s ELSE SubSeq(s, 1, n)

\* DataFrame.head(n)
head(s, n) == IF Len(s) <= n THEN s ELSE SubSeq(s, 1, n)

\* s[-n:]
last_n(s, n) == IF Len(s) <= n THEN s ELSE SubSeq(s, Len(s) - n + 1, Len(s))

\* np.array([...], dtype=float): None becomes nan.
as_float(v) == IF v.tag = "none" THEN NaN ELSE v

\* x[mask], y[mask]: the positions whose y is not NaN, in order.
RECURSIVE mask_positions(_, _)
mask_positions(y, i) ==
    IF i > Len(y) THEN <<>>
    ELSE (IF np_isnan(y[i]) THEN <<>> ELSE <<i>>) \o mask_positions(y, i + 1)

RECURSIVE SumSeq(_)
SumSeq(s) == IF s = <<>> THEN 0 ELSE Head(s) + SumSeq(Tail(s))

\* scipy.stats.linregress(x, y).slope for integer-valued x, y, as the exact
\* rational cov(x, y) / var(x); "raise" when all x are identical.
linregress_slope(x, y) ==
    LET n   == Len(x)
        sx  == SumSeq(x)
        sy  == SumSeq(y)
        sxy == SumSeq([i \in 1..n |-> x[i] * y[i]])
        sxx == SumSeq([i \in 1..n |-> x[i] * x[i]])
        d   == n * sxx - sx * sx
    IN  IF d = 0 THEN [tag |-> "raise", num |-> 0, den |-> 1]
        ELSE Q(n * sxy - sx * sy, d)

\* np.mean(np.abs(y))
mean_abs(y) == Q(SumSeq([i \in 1..Len(y) |-> Abs(y[i])]), Len(y))

\* range(len(sorted_items)) as an array.
index_array(n) == [i \in 1..n |-> i - 1]

\* a[mask] for the kept positions.
apply_mask(a, keep) == [i \in 1..Len(keep) |-> a[keep[i]]]

\* Variant of regression_points that numbers the points after the NaN mask.
regression_points_reindexed(history, years) ==
    LET window == last_n(sorted_by_key(history.items), years)
        y0     == [i \in 1..Len(window) |-> as_float(window[i][2])]
        keep   == mask_positions(y0, 1)
    IN  [n_items |-> Len(history.items),
         x       |-> index_array(Len(keep)),
         y       |-> [i \in 1..Len(keep) |-> apply_mask(y0, keep)[i].num]]

\* The regression input of calculate_trend: the number of items, and the x and
\* y arrays after the NaN mask.
regression_points(history, years) ==
    LET sorted_items == sorted_by_key(history.items)
        window       == last_n(sorted_items, years)
        x0           == index_array(Len(window))
        y0           == [i \in 1..Len(window) |-> as_float(window[i][2])]
        keep         == mask_positions(y0, 1)
    IN  [n_items |-> Len(sorted_items),
         x       |-> apply_mask(x0, keep),
         y       |-> [i \in 1..Len(keep) |-> apply_mask(y0, keep)[i].num]]

\* The locals of calculate_trend(history, years) at its return.
calculate_trend_locals(history, years) ==
    LET p         == regression_points(history, years)
        slope     == linregress_slope(p.x, p.y)
        mean_val  == mean_abs(p.y)
        slope_pct == FDiv(slope, mean_val)
        na        == [ret |-> "N/A", slope_pct |-> NaN]
    IN  IF ~is_nonempty_dict(history) THEN na
        ELSE IF p.n_items < 2 THEN na
        ELSE IF Len(p.x) < 2 THEN na
        ELSE IF slope.tag = "raise" THEN na
        ELSE IF mean_val.num = 0 THEN [ret |-> "Flat", slope_pct |-> NaN]
        ELSE IF GtRat(slope_pct, 1, 20) THEN [ret |-> "Uptrend", slope_pct |-> slope_pct]
        ELSE IF LtRat(slope_pct, -1, 20) THEN [ret |-> "Downtrend", slope_pct |-> slope_pct]
        ELSE [ret |-> "Flat", slope_pct |-> slope_pct]

\* Variants of calculate_trend: thresholds that include the boundary, and a
\* zero mean reported as "N/A".
calculate_trend_inclusive(history) ==
    LET l == calculate_trend_locals(history, YEARS)
    IN  IF l.slope_pct = Q(1, 20) THEN "Uptrend"
        ELSE IF l.slope_pct = Q(-1, 20) THEN "Downtrend"
        ELSE l.ret

calculate_trend_zero_mean_na(history) ==
    LET l == calculate_trend_locals(history, YEARS)
    IN  IF l.ret = "Flat" /\ l.slope_pct = NaN THEN "N/A" ELSE l.ret

calculate_trend(history) == calculate_trend_locals(history, YEARS).ret

\* Variants of determine_trend: growth thresholds that include the boundary,
\* and a defined growth rate taking precedence over the history.
determine_trend_inclusive(history, growth_rate) ==
    LET trend == IF is_nonempty_dict(history) THEN calculate_trend(history) ELSE "N/A"
    IN  IF trend # "N/A" THEN trend
        ELSE IF pd_isna(growth_rate) THEN "N/A"
        ELSE IF ~LtRat(growth_rate, 1, 20) THEN "Uptrend"
        ELSE IF ~GtRat(growth_rate, -1, 20) THEN "Downtrend"
        ELSE "Flat"

determine_trend_growth_first(history, growth_rate) ==
    IF pd_notna(growth_rate)
    THEN (IF GtRat(growth_rate, 1, 20) THEN "Uptrend"
          ELSE IF LtRat(growth_rate, -1, 20) THEN "Downtrend"
          ELSE "Flat")
    ELSE IF is_nonempty_dict(history) THEN calculate_trend(history) ELSE "N/A"

\* process_dataframe's inner determine_trend(history, growth_rate).
determine_trend(history, growth_rate) ==
    LET trend == IF is_nonempty_dict(history) THEN calculate_trend(history) ELSE "N/A"
    IN  IF trend # "N/A" THEN trend
        ELSE IF pd_isna(growth_rate) THEN "N/A"
        ELSE IF GtRat(growth_rate, 1, 20) THEN "Uptrend"
        ELSE IF LtRat(growth_rate, -1, 20) THEN "Downtrend"
        ELSE "Flat"

-----------------------------------------------------------------------------
(* process_dataframe                                                       *)

\* Before build_treemap and get_summary_stats have been called.
NoFigure == [kind |-> "none", text |-> "", tiles |-> <<>>]

NoStats == [total |-> -1]

NoCard == [idx |-> 0, grade |-> "", color |-> ""]

\* The variables of the disk cache (src/disk_cache.py): the files present,
\* the clock time.time() in seconds, the value the last call returned, the
\* positions of the sessions inside their calls, and the save_cache calls
\* that completed.
cache_vars == <<disk, now, ret, sess, saved>>

tab_vars == <<df, out, pc, fig, stats, table, hide_neg, use_underval, selected, card, picks, ranking>>

NoReturn == [op |-> "none"]

NoSession == [saver |-> [pc |-> "idle"], loader |-> [pc |-> "idle"]]

\* No cache call is made: the data_cache directory does not exist.
CacheUnused ==
    /\ disk = {}
    /\ now = 0
    /\ ret = NoReturn
    /\ sess = NoSession
    /\ saved = {}

\* df.apply(calculate_pcf, axis=1) collected into a Series: when any result
\* is a float (NaN included) the column is float64 and None becomes NaN;
\* a column of None only keeps dtype object and its None values.
apply_series(results) ==
    IF \E i \in 1..Len(results) : results[i].tag # "none"
    THEN [i \in 1..Len(results) |-> as_float(results[i])]
    ELSE results

pcf_column(rows) == apply_series([i \in 1..Len(rows) |-> calculate_pcf(rows[i])])

\* round(n / d) to the nearest integer, ties to even, for d > 0.
round_half_even(n, d) ==
    LET q == n \div d
        r == n % d
    IN  IF 2 * r < d THEN q
        ELSE IF 2 * r > d THEN q + 1
        ELSE IF q % 2 = 0 THEN q ELSE q + 1

DigitChars == <<"0", "1", "2", "3", "4", "5", "6", "7", "8", "9">>

\* str(n) for a natural number n.
RECURSIVE str_nat(_)
str_nat(n) ==
    IF n < 10 THEN <<DigitChars[n + 1]>>
    ELSE Append(str_nat(n \div 10), DigitChars[(n % 10) + 1])

\* f"{x:.1f}" for a float x: the nearest number of tenths, ties to even,
\* written with one decimal digit.
format_1f(x) ==
    LET tenths == round_half_even(10 * Abs(x.num), x.den)
        sign   == IF x.num < 0 THEN <<"-">> ELSE <<>>
    IN  sign \o str_nat(tenths \div 10) \o <<".">> \o str_nat(tenths % 10)

STR_NA == <<"N", "/", "A">>

\* Variant of pcf_display that truncates instead of rounding.
pcf_display_truncated(pcf) ==
    IF pd_notna(pcf)
    THEN str_nat(pcf.num \div pcf.den) \o <<".">>
         \o str_nat(((10 * pcf.num) \div pcf.den) % 10) \o <<"x">>
    ELSE STR_NA

\* f"{x:.1f}x" if pd.notna(x) else "N/A"
pcf_display(pcf) ==
    IF pd_notna(pcf) THEN format_1f(pcf) \o <<"x">> ELSE STR_NA

\* One row of the returned frame, given its cell of the pcf column.
enrich_row(row, pcf) ==
    [market_cap      |-> row.market_cap,
     sector          |-> row.sector,
     ttm_ocf         |-> row.ttm_ocf,
     ttm_ffo_proxy   |-> row.ttm_ffo_proxy,
     revenue_history |-> row.revenue_history,
     revenue_growth  |-> row.revenue_growth,
     cf_history      |-> row.cf_history,
     earnings_growth |-> row.earnings_growth,
     pcf             |-> pcf,
     cf_method       |-> get_cf_method(row),
     revenue_trend   |-> determine_trend(row.revenue_history, row.revenue_growth),
     cf_trend        |-> determine_trend(row.cf_history, row.earnings_growth),
     pcf_display     |-> pcf_display(pcf),
     market_cap_b    |-> FDiv(as_float(row.market_cap), F(1000000000)),
     pcf_color       |-> as_float(pcf)]

\* Variant of process_dataframe that assigns the pcf column in reverse order.
process_dataframe_misaligned(rows) ==
    IF rows = <<>> THEN rows
    ELSE LET col == pcf_column(rows)
         IN  [i \in 1..Len(rows) |-> enrich_row(rows[i], col[Len(rows) + 1 - i])]

\* process_dataframe(df): an empty frame is returned as it is.
process_dataframe(rows) ==
    IF rows = <<>> THEN rows
    ELSE LET col == pcf_column(rows)
         IN  [i \in 1..Len(rows) |-> enrich_row(rows[i], col[i])]

\* The exceptions process_dataframe lets escape.  A comparison of None with a
\* number raises TypeError; NaN compares False.  safe_float keeps None out of
\* calculate_pcf's comparisons, so calculate_pcf raises nothing.
py_compare_raises(v) == v.tag = "none"

\* Variant of get_cf_method_raises without the pd.notna guard.
get_cf_method_raises_unguarded(row) ==
    LET sector == lower(row.sector)
    IN  (contains(STR_REAL_ESTATE, sector) \/ contains(STR_REIT, sector))
        /\ py_compare_raises(row.ttm_ffo_proxy)

\* get_cf_method: `ttm_ffo_proxy > 0` is evaluated for a real-estate sector
\* and a proxy that pd.notna accepts.
get_cf_method_raises(row) ==
    LET sector == lower(row.sector)
    IN  (contains(STR_REAL_ESTATE, sector) \/ contains(STR_REIT, sector))
        /\ pd_notna(row.ttm_ffo_proxy)
        /\ py_compare_raises(row.ttm_ffo_proxy)

\* determine_trend: linregress's exception is caught inside calculate_trend;
\* `growth_rate > 0.05` is evaluated when the history gives "N/A" and
\* pd.isna(growth_rate) is False.
determine_trend_raises(history, growth_rate) ==
    LET trend == IF is_nonempty_dict(history) THEN calculate_trend(history) ELSE "N/A"
    IN  trend = "N/A" /\ ~pd_isna(growth_rate) /\ py_compare_raises(growth_rate)

process_dataframe_raises(rows) ==
    \E i \in 1..Len(rows) :
        \/ get_cf_method_raises(rows[i])
        \/ determine_trend_raises(rows[i].revenue_history, rows[i].revenue_growth)
        \/ determine_trend_raises(rows[i].cf_history, rows[i].earnings_growth)

-----------------------------------------------------------------------------
(* visualization.py: get_summary_stats                                     *)

\* a + b and a < b for floats that are numbers.
FAdd(a, b) == Q(a.num * b.den + b.num * a.den, a.den * b.den)

FLt(a, b) == a.num * b.den < b.num * a.den

\* df[(df["pcf"].notna()) & (df["pcf"] > 0)]["pcf"]: on an object column the
\* comparison of a null element is False.
valid_pcf(rows) ==
    LET keep == SelectSeq([i \in 1..Len(rows) |-> i],
                          LAMBDA i : pd_notna(rows[i].pcf) /\ GtZero(rows[i].pcf))
    IN  [k \in 1..Len(keep) |-> rows[keep[k]].pcf]

\* The position of each key in ascending order, equal keys in their
\* original order.
rank_positions(keys) ==
    [a \in 1..Len(keys) |->
        1 + Cardinality({b \in 1..Len(keys) :
                            FLt(keys[b], keys[a]) \/ (keys[b] = keys[a] /\ b < a)})]

\* sort_values(ascending=True) by keys, on the labels idxs (keys[a] is the
\* key of idxs[a]).  The arguments are bound through one-element sets, which
\* evaluates each of them once.
sort_rows(idxs, keys) ==
    CHOOSE o \in {[k \in 1..Len(ids) |-> ids[CHOOSE a \in 1..Len(ids) : pos[a] = k]] :
                    ids \in {idxs}, pos \in {rank_positions(ks) : ks \in {keys}}} :
        TRUE

\* Series.sort_values()
sorted_floats(s) == sort_rows(s, s)

\* Variant of series_median: the lower of the two middle values.
series_median_lower(s) == sorted_floats(s)[(Len(s) + 1) \div 2]

\* Series.median() of a non-empty series of numbers: the middle value, or
\* the mean of the two middle values.
series_median(s) ==
    LET o == sorted_floats(s)
        n == Len(s)
    IN  IF n % 2 = 1 THEN o[(n + 1) \div 2]
        ELSE FDiv(FAdd(o[n \div 2], o[n \div 2 + 1]), F(2))

\* The sum of a series, by halves.
RECURSIVE sum_floats(_)
sum_floats(s) ==
    IF s = <<>> THEN F(0)
    ELSE IF Len(s) = 1 THEN s[1]
    ELSE FAdd(sum_floats(SubSeq(s, 1, Len(s) \div 2)),
              sum_floats(SubSeq(s, Len(s) \div 2 + 1, Len(s))))

\* Series.mean() of a non-empty series of numbers.
series_mean(s) == FDiv(sum_floats(s), F(Len(s)))

\* `if med`: None and 0.0 are falsy.
truthy(v) == v.tag = "nan" \/ (v.tag = "float" /\ v.num # 0)

get_summary_stats(rows) ==
    LET total       == Len(rows)
        valid       == valid_pcf(rows)
        valid_count == Len(valid)
        neg         == total - valid_count
        med         == IF valid # <<>> THEN series_median(valid) ELSE None
        avg         == IF valid # <<>> THEN series_mean(valid) ELSE None
    IN  [total           |-> total,
         valid           |-> valid_count,
         negative_cf     |-> neg,
         negative_cf_pct |-> IF total # 0
                             THEN format_1f(Q(neg * 100, total)) \o <<"%">>
                             ELSE <<"0", "%">>,
         median_pcf      |-> IF truthy(med) THEN format_1f(med) \o <<"x">> ELSE STR_NA,
         mean_pcf        |-> IF truthy(avg) THEN format_1f(avg) \o <<"x">> ELSE STR_NA]

-----------------------------------------------------------------------------
(* visualization.py: build_treemap                                         *)

GREY_COLOR == "#b0b0b0"

PCF_MIN == 0

PCF_MAX == 30

\* a - b for floats that are numbers.
FSub(a, b) == Q(a.num * b.den - b.num * a.den, a.den * b.den)

\* One stop of the scale: its position, the red, green and blue components of
\* its hex colour, and the name the source gives the colour.
Stop(n, d, r, g, b, name) == [at |-> Q(n, d), rgb |-> <<r, g, b>>, name |-> name]

CUSTOM_COLORSCALE ==
    << Stop(0, 1, 26, 150, 65, "dark green"),
       Stop(1, 5, 102, 189, 99, "green"),
       Stop(7, 20, 166, 217, 106, "light green"),
       Stop(9, 20, 116, 169, 207, "light blue"),
       Stop(1, 2, 33, 102, 172, "dark blue"),
       Stop(11, 20, 153, 112, 171, "light purple"),
       Stop(7, 10, 224, 128, 112, "light red"),
       Stop(17, 20, 215, 48, 39, "red"),
       Stop(1, 1, 165, 0, 38, "dark red") >>

\* bisect_left(scale, point) as a position of the scale counted from 1.
bisect_left(point) ==
    1 + Cardinality({k \in 1..Len(CUSTOM_COLORSCALE) : FLt(CUSTOM_COLORSCALE[k].at, point)})

\* find_intermediate_color: lowcolor + intermed * (highcolor - lowcolor).
find_intermediate_color(lowcolor, highcolor, intermed) ==
    [c \in 1..3 |->
        Q(lowcolor[c] * intermed.den + intermed.num * (highcolor[c] - lowcolor[c]),
          intermed.den)]

\* sample_colorscale(CUSTOM_COLORSCALE, [point]) for 0 <= point <= 1: the
\* colour between the stops around point (index -1 is the last stop), with
\* the positions of the two stops.
sample_colorscale(point) ==
    LET high == bisect_left(point)
        low  == IF high = 1 THEN Len(CUSTOM_COLORSCALE) ELSE high - 1
        lo   == CUSTOM_COLORSCALE[low]
        hi   == CUSTOM_COLORSCALE[high]
        t    == FDiv(FSub(point, lo.at), FSub(hi.at, lo.at))
    IN  [low |-> low, high |-> high, rgb |-> find_intermediate_color(lo.rgb, hi.rgb, t)]

\* max(0, min(1, norm))
clamp01(v) == IF v.num < 0 THEN F(0) ELSE IF v.num > v.den THEN F(1) ELSE v

\* Variant of tile: an N/A tile has the value 1000 in both size modes.
tile_na_constant(r, idx, size_by_undervalue) ==
    IF pd_isna(r.pcf) \/ LeZero(r.pcf)
    THEN [idx |-> idx, na |-> TRUE, grade |-> "N/A", value |-> F(1000),
          color |-> GREY_COLOR, norm |-> NaN]
    ELSE [idx |-> idx, na |-> FALSE,
          grade |-> IF ~GtRat(r.pcf, 10, 1) THEN "Undervalued"
                    ELSE IF ~GtRat(r.pcf, 15, 1) THEN "Neutral"
                    ELSE IF ~GtRat(r.pcf, 20, 1) THEN "SlightlyOvervalued"
                    ELSE "Overvalued",
          value |-> IF size_by_undervalue THEN FDiv(F(1000000), r.pcf) ELSE r.market_cap,
          color |-> None,
          norm  |-> clamp01(FDiv(FSub(r.pcf, F(PCF_MIN)), F(PCF_MAX - PCF_MIN)))]

\* Variant of tile: a valued tile has its market cap as value in both modes.
tile_by_market_cap(r, idx, size_by_undervalue) ==
    LET t == tile_na_constant(r, idx, size_by_undervalue)
    IN  IF t.na
        THEN [t EXCEPT !.value = IF size_by_undervalue THEN F(1000) ELSE r.market_cap]
        ELSE [t EXCEPT !.value = r.market_cap]

\* Variant of tile: the grade buckets are lower-inclusive.
tile_exclusive(r, idx, size_by_undervalue) ==
    LET t == tile_na_constant(r, idx, size_by_undervalue)
    IN  IF t.na
        THEN [t EXCEPT !.value = IF size_by_undervalue THEN F(1000) ELSE r.market_cap]
        ELSE [t EXCEPT !.grade = IF LtRat(r.pcf, 10, 1) THEN "Undervalued"
                                 ELSE IF LtRat(r.pcf, 15, 1) THEN "Neutral"
                                 ELSE IF LtRat(r.pcf, 20, 1) THEN "SlightlyOvervalued"
                                 ELSE "Overvalued"]

\* One pass of the loop over df_valid.iterrows(): label (the row's index and
\* its grade), value and colour of the tile of row r; a valued tile has the
\* placeholder None as colour and its position on the scale in norm.
tile(r, idx, size_by_undervalue) ==
    IF pd_isna(r.pcf) \/ LeZero(r.pcf)
    THEN [idx |-> idx, na |-> TRUE, grade |-> "N/A",
          value |-> IF ~size_by_undervalue THEN r.market_cap ELSE F(1000),
          color |-> GREY_COLOR, norm |-> NaN]
    ELSE [idx |-> idx, na |-> FALSE,
          grade |-> IF ~GtRat(r.pcf, 10, 1) THEN "Undervalued"
                    ELSE IF ~GtRat(r.pcf, 15, 1) THEN "Neutral"
                    ELSE IF ~GtRat(r.pcf, 20, 1) THEN "SlightlyOvervalued"
                    ELSE "Overvalued",
          value |-> IF size_by_undervalue THEN FDiv(F(1000000), r.pcf) ELSE r.market_cap,
          color |-> None,
          norm  |-> clamp01(FDiv(FSub(r.pcf, F(PCF_MIN)), F(PCF_MAX - PCF_MIN)))]

\* valid_indices: the positions of the tiles whose colour is the placeholder.
valid_indices(tiles) == SelectSeq([k \in 1..Len(tiles) |-> k], LAMBDA k : ~tiles[k].na)

\* Variant of fill_colors that leaves the last placeholder.
fill_colors_but_last(tiles) ==
    LET vi == valid_indices(tiles)
    IN  [k \in 1..Len(tiles) |->
            IF \E i \in 1..(Len(vi) - 1) : vi[i] = k
            THEN [tiles[k] EXCEPT !.color = sample_colorscale(tiles[k].norm)]
            ELSE tiles[k]]

\* The batch fill: all_colors[idx] = sampled_colors[i] for the i-th of
\* valid_indices, sampled_colors[i] being the sample at valid_norms[i].
fill_colors(tiles) ==
    LET vi      == valid_indices(tiles)
        sampled == [i \in 1..Len(vi) |-> sample_colorscale(tiles[vi[i]].norm)]
    IN  [k \in 1..Len(tiles) |->
            IF \E i \in 1..Len(vi) : vi[i] = k
            THEN [tiles[k] EXCEPT !.color = sampled[CHOOSE i \in 1..Len(vi) : vi[i] = k]]
            ELSE tiles[k]]

\* df[df["market_cap"] > 0]: the index labels of the rows kept.
positive_cap_rows(rows) ==
    SelectSeq([i \in 1..Len(rows) |-> i], LAMBDA i : GtZero(rows[i].market_cap))

\* Variants of shown_rows: the flag ignored, either way.
shown_rows_all(rows, idxs, hide_negative_cf) == idxs

shown_rows_valued(rows, idxs, hide_negative_cf) ==
    SelectSeq(idxs, LAMBDA i : pd_notna(rows[i].pcf))

\* df_show: df[df["pcf"].notna()] if hide_negative_cf else df
shown_rows(rows, idxs, hide_negative_cf) ==
    IF hide_negative_cf THEN SelectSeq(idxs, LAMBDA i : pd_notna(rows[i].pcf))
    ELSE idxs

\* The figure with an annotation and no treemap trace.
annotation_figure(text) == [kind |-> "annotation", text |-> text, tiles |-> <<>>]

build_treemap(rows, hide_negative_cf, size_by_undervalue) ==
    IF rows = <<>> THEN annotation_figure("no data")
    ELSE LET df_show == shown_rows(rows, positive_cap_rows(rows), hide_negative_cf)
         IN  IF df_show = <<>> THEN annotation_figure("no valid stock")
             ELSE [kind  |-> "treemap", text |-> "",
                   tiles |-> fill_colors([k \in 1..Len(df_show) |->
                                 tile(rows[df_show[k]], df_show[k], size_by_undervalue)])]

-----------------------------------------------------------------------------
(* app.py: the parsers of P/CF display strings                             *)

IsDigit(c) == \E d \in 1..10 : DigitChars[d] = c

digit_val(c) == CHOOSE d \in 0..9 : DigitChars[d + 1] = c

RECURSIVE nat_of(_)
nat_of(s) ==
    IF s = <<>> THEN 0
    ELSE 10 * nat_of(SubSeq(s, 1, Len(s) - 1)) + digit_val(s[Len(s)])

RECURSIVE Pow10(_)
Pow10(n) == IF n = 0 THEN 1 ELSE 10 * Pow10(n - 1)

ValueError == [tag |-> "raise", num |-> 0, den |-> 1]

\* float(s) for a string of digits with an optional sign and an optional
\* decimal point; any other string of the characters used here raises.
py_float(s) ==
    LET neg  == s # <<>> /\ s[1] = "-"
        body == IF neg THEN Tail(s) ELSE s
        dots == {i \in 1..Len(body) : body[i] = "."}
        dot  == IF dots = {} THEN Len(body) + 1 ELSE CHOOSE i \in dots : TRUE
        ip   == SubSeq(body, 1, dot - 1)
        fp   == SubSeq(body, dot + 1, Len(body))
        ok   == /\ Cardinality(dots) <= 1
                /\ Len(ip) + Len(fp) >= 1
                /\ \A i \in 1..Len(ip) : IsDigit(ip[i])
                /\ \A i \in 1..Len(fp) : IsDigit(fp[i])
        mag  == nat_of(ip) * Pow10(Len(fp)) + nat_of(fp)
    IN  IF ok THEN Q(IF neg THEN -mag ELSE mag, Pow10(Len(fp))) ELSE ValueError

\* str.replace(old, new) for a non-empty old.
RECURSIVE str_replace(_, _, _)
str_replace(s, old, new) ==
    IF Len(s) < Len(old) THEN s
    ELSE IF SubSeq(s, 1, Len(old)) = old
    THEN new \o str_replace(SubSeq(s, Len(old) + 1, Len(s)), old, new)
    ELSE <<Head(s)>> \o str_replace(Tail(s), old, new)

\* Variant of sort_key that also removes the decimal point.
sort_key_no_point(text) ==
    py_float(str_replace(str_replace(str_replace(text, <<"x">>, <<>>), <<".">>, <<>>),
                         STR_NA, <<"9", "9", "9">>))

\* The key of render_tab's table sort:
\* x.astype(str).str.replace("x","").str.replace("N/A","999").astype(float)
sort_key(text) ==
    py_float(str_replace(str_replace(text, <<"x">>, <<>>), STR_NA, <<"9", "9", "9">>))

\* load_from_seed's cleaning of a numeric column read as text:
\* .str.replace(r'[x,]', '', regex=True), then pd.to_numeric(errors='coerce').
seed_to_numeric(text) ==
    LET cleaned == SelectSeq(text, LAMBDA c : c \notin {"x", ","})
        v       == py_float(cleaned)
    IN  IF v.tag = "raise" THEN NaN ELSE v

\* dfd.sort_values("P/CF", key=...): the rows' index labels in the order of
\* their keys, equal keys in their original order, each with its key.
sorted_table(rows) ==
    CHOOSE t \in {[k \in 1..Len(keys) |->
                      [idx |-> order[k], key |-> keys[order[k]]]] :
                  keys \in {[i \in 1..Len(rows) |-> sort_key(rows[i].pcf_display)]},
                  order \in {sort_rows([i \in 1..Len(rows) |-> i],
                                       [i \in 1..Len(rows) |-> sort_key(rows[i].pcf_display)])}} :
        TRUE

render_tab_raises(rows) ==
    \E i \in 1..Len(rows) : sort_key(rows[i].pcf_display).tag = "raise"

-----------------------------------------------------------------------------
(* app.py: render_search_result, render_strong_picks, render_ranking_table *)

\* Variant of render_search_result with lower-exclusive buckets.
render_search_result_exclusive(rows, sel) ==
    LET pcf == rows[sel].pcf
    IN  IF pd_notna(pcf) /\ GtZero(pcf)
        THEN IF LtRat(pcf, 10, 1) THEN [idx |-> sel, grade |-> "Undervalued", color |-> "#1a9641"]
             ELSE IF LtRat(pcf, 15, 1) THEN [idx |-> sel, grade |-> "Neutral", color |-> "#2166ac"]
             ELSE IF LtRat(pcf, 20, 1)
             THEN [idx |-> sel, grade |-> "SlightlyOvervalued", color |-> "#e6a03c"]
             ELSE [idx |-> sel, grade |-> "Overvalued", color |-> "#a50026"]
        ELSE [idx |-> sel, grade |-> "N/A", color |-> "#888"]

\* The grade and colour of the card of the selected row (the select box of
\* render_tab passes the frame of that one row).
render_search_result(rows, sel) ==
    LET pcf == rows[sel].pcf
    IN  IF pd_notna(pcf) /\ GtZero(pcf)
        THEN IF ~GtRat(pcf, 10, 1) THEN [idx |-> sel, grade |-> "Undervalued", color |-> "#1a9641"]
             ELSE IF ~GtRat(pcf, 15, 1) THEN [idx |-> sel, grade |-> "Neutral", color |-> "#2166ac"]
             ELSE IF ~GtRat(pcf, 20, 1)
             THEN [idx |-> sel, grade |-> "SlightlyOvervalued", color |-> "#e6a03c"]
             ELSE [idx |-> sel, grade |-> "Overvalued", color |-> "#a50026"]
        ELSE [idx |-> sel, grade |-> "N/A", color |-> "#888"]

\* Series.str.contains("Uptrend", na=False) on a trend column.
is_uptrend(trend) == trend = "Uptrend"

\* Variant of render_strong_picks that does not look at cf_trend.
render_strong_picks_revenue_only(rows) ==
    LET keep == SelectSeq([i \in 1..Len(rows) |-> i],
                    LAMBDA i : /\ pd_notna(rows[i].pcf)
                               /\ ~GtRat(rows[i].pcf, 10, 1)
                               /\ is_uptrend(rows[i].revenue_trend))
    IN  sort_rows(keep, [a \in 1..Len(keep) |-> rows[keep[a]].pcf])

\* picks: the index labels of the rows kept, sorted by pcf.
render_strong_picks(rows) ==
    LET keep == SelectSeq([i \in 1..Len(rows) |-> i],
                    LAMBDA i : /\ pd_notna(rows[i].pcf)
                               /\ ~GtRat(rows[i].pcf, 10, 1)
                               /\ is_uptrend(rows[i].revenue_trend)
                               /\ is_uptrend(rows[i].cf_trend))
    IN  sort_rows(keep, [a \in 1..Len(keep) |-> rows[keep[a]].pcf])

\* a * b for floats that are numbers.
FMul(a, b) == Q(a.num * b.num, a.den * b.den)

TOP_N == 50

\* valid_df['score']: pcf, times 0.8 for each trend that is an uptrend.
score(r) ==
    LET s1 == IF is_uptrend(r.revenue_trend) THEN FMul(r.pcf, Q(8, 10)) ELSE r.pcf
    IN  IF is_uptrend(r.cf_trend) THEN FMul(s1, Q(8, 10)) ELSE s1

\* Variant of render_ranking_table without head(50).
render_ranking_table_all(rows) ==
    LET valid == SelectSeq([i \in 1..Len(rows) |-> i], LAMBDA i : GtZero(rows[i].pcf))
    IN  CHOOSE t \in {[k \in 1..Len(order) |->
                          [idx |-> order[k], score |-> score(rows[order[k]])]] :
                      order \in {sort_rows(valid, [a \in 1..Len(valid) |-> score(rows[valid[a]])])}} :
            TRUE

\* The ranking: the rows with pcf > 0 sorted by score, the first 50 of them.
render_ranking_table(rows) ==
    LET valid == SelectSeq([i \in 1..Len(rows) |-> i], LAMBDA i : GtZero(rows[i].pcf))
    IN  CHOOSE t \in {[k \in 1..Len(order) |->
                          [idx |-> order[k], score |-> score(rows[order[k]])]] :
                      order \in {head(sort_rows(valid, [a \in 1..Len(valid) |-> score(rows[valid[a]])]), TOP_N)}} :
            TRUE

-----------------------------------------------------------------------------
(* Inputs                                                                  *)

MaxCap == 4

MaxCf == 3

CapVals == {NaN, None} \cup {F(n) : n \in -1..MaxCap}

CfVals == {NaN, None} \cup {F(n) : n \in -MaxCf..MaxCf}

Sectors ==
    { <<"R", "e", "a", "l", " ", "E", "s", "t", "a", "t", "e">>,
      <<"R", "E", "I", "T">>,
      <<"E", "q", "u", "i", "t", "y", " ", "R", "E", "I", "T", "s">>,
      <<"r", "e", "a", "l", "e", "s", "t", "a", "t", "e">>,
      <<"T", "e", "c", "h", "n", "o", "l", "o", "g", "y">>,
      <<"R", "e", "t", "a", "i", "l">>,
      <<>> }

EmptyDict == Dict(<<>>)

\* A fetched row (data_fetcher.fetch_stock_data): no growth columns.
Row(cap, sector, ocf, ffo, rh, rg, ch, eg) ==
    [market_cap      |-> cap,
     sector          |-> sector,
     ttm_ocf         |-> ocf,
     ttm_ffo_proxy   |-> ffo,
     revenue_history |-> rh,
     revenue_growth  |-> rg,
     cf_history      |-> ch,
     earnings_growth |-> eg]

PcfRows ==
    { Row(cap, sector, ocf, ffo, EmptyDict, None, EmptyDict, None) :
        cap \in CapVals, sector \in Sectors, ocf \in CfVals, ffo \in CfVals }

-----------------------------------------------------------------------------
(* The state machine: a frame is loaded, process_dataframe enriches it.    *)

Init ==
    /\ df \in {<<r>> : r \in PcfRows} \cup {<<>>}
    /\ out = <<>>
    /\ pc = "loaded"
    /\ fig = NoFigure
    /\ stats = NoStats
    /\ table = <<>>
    /\ hide_neg = TRUE
    /\ use_underval = TRUE
    /\ selected = 1
    /\ card = NoCard
    /\ picks = <<>>
    /\ ranking = <<>>
    /\ CacheUnused

\* Variant of process_dataframe_input: the columns are assigned on the frame
\* passed in, as they would be without the copy.
process_dataframe_input_in_place(rows) ==
    IF process_dataframe_raises(rows) THEN rows ELSE process_dataframe(rows)

\* The frame of the caller after process_dataframe(df): `df = df.copy()` binds
\* the local name to a copy before any column is assigned, and an empty frame
\* is returned untouched.
process_dataframe_input(rows) == rows

\* The frame of the caller after build_treemap(df, ...): the filters bind the
\* local names to new frames (`df[...].copy()`), nothing is assigned on df.
build_treemap_input(rows, hide_negative_cf, size_by_undervalue) == rows

ProcessDataframe ==
    /\ pc = "loaded"
    /\ IF process_dataframe_raises(df)
       THEN out' = <<>> /\ pc' = "raised"
       ELSE out' = process_dataframe(df) /\ pc' = "enriched"
    /\ df' = process_dataframe_input(df)
    /\ UNCHANGED <<fig, stats, table, hide_neg, use_underval, selected, card, picks, ranking>>
    /\ UNCHANGED cache_vars

Next == ProcessDataframe

Spec == Init /\ [][Next]_vars

\* render_tab on the loaded frame: nothing is drawn for an empty frame;
\* otherwise the summary, the strong picks, the treemap under the sidebar's
\* settings, the card of the stock chosen in the select box, the ranking and
\* the sorted table.
RenderTab ==
    /\ pc = "enriched"
    /\ IF out = <<>>
       THEN /\ pc' = "warned"
            /\ UNCHANGED <<fig, stats, table, card, picks, ranking>>
       ELSE /\ stats' = get_summary_stats(out)
            /\ picks' = render_strong_picks(out)
            /\ fig' = build_treemap(out, hide_neg, use_underval)
            /\ card' = render_search_result(out, selected)
            /\ ranking' = render_ranking_table(out)
            /\ IF render_tab_raises(out)
               THEN table' = <<>> /\ pc' = "raised"
               ELSE table' = sorted_table(out) /\ pc' = "rendered"
    /\ out' = build_treemap_input(out, hide_neg, use_underval)
    /\ UNCHANGED <<df, hide_neg, use_underval, selected>>
    /\ UNCHANGED cache_vars

NextTab == ProcessDataframe \/ RenderTab

\* Frames of several rows.  The rows: P/CF 5 with rising histories, P/CF 20
\* with a single-point and an all-NaN history, a REIT valued by FFO at 10/3,
\* a REIT without FFO at 1.25, negative cash flow, missing cash flow, missing
\* market cap, zero market cap.
TECH == <<"T", "e", "c", "h">>

REIT == <<"R", "E", "I", "T">>

Rising == Dict(<<<<2022, F(1)>>, <<2023, F(3)>>>>)

BatchRows ==
    { Row(F(20), TECH, F(4), NaN, Rising, None, Rising, None),
      Row(F(20), TECH, F(1), NaN, Dict(<<<<2023, F(1)>>>>), None,
          Dict(<<<<2022, NaN>>, <<2023, NaN>>>>), NaN),
      Row(F(10), REIT, F(-1), F(3), EmptyDict, Q(1, 10), EmptyDict, Q(-1, 10)),
      Row(F(5), REIT, F(4), None, EmptyDict, None, EmptyDict, None),
      Row(F(20), TECH, F(-2), NaN, EmptyDict, None, EmptyDict, None),
      Row(F(20), TECH, NaN, NaN, EmptyDict, None, EmptyDict, None),
      Row(NaN, TECH, F(4), NaN, EmptyDict, None, EmptyDict, None),
      Row(F(0), TECH, F(4), NaN, EmptyDict, None, EmptyDict, None) }

MaxRows == 3

InitBatch ==
    /\ \E n \in 0..MaxRows : df \in [1..n -> BatchRows]
    /\ out = <<>>
    /\ pc = "loaded"
    /\ fig = NoFigure
    /\ stats = NoStats
    /\ table = <<>>
    /\ hide_neg \in BOOLEAN
    /\ use_underval \in BOOLEAN
    /\ selected \in 1..Len(df) \cup {1}
    /\ card = NoCard
    /\ picks = <<>>
    /\ ranking = <<>>
    /\ CacheUnused

SpecBatch == InitBatch /\ [][NextTab]_vars

\* One-row frames over a range of P/CF values.
MaxDisplayCap == 60

MaxDisplayCf == 4

InitDisplay ==
    /\ \E cap \in {NaN} \cup {F(c) : c \in 1..MaxDisplayCap}, ocf \in -1..MaxDisplayCf :
           df = <<Row(cap, TECH, F(ocf), NaN, EmptyDict, None, EmptyDict, None)>>
    /\ out = <<>>
    /\ pc = "loaded"
    /\ fig = NoFigure
    /\ stats = NoStats
    /\ table = <<>>
    /\ hide_neg \in BOOLEAN
    /\ use_underval = TRUE
    /\ selected = 1
    /\ card = NoCard
    /\ picks = <<>>
    /\ ranking = <<>>
    /\ CacheUnused

SpecDisplay == InitDisplay /\ [][NextTab]_vars

Rendered == pc = "rendered"

-----------------------------------------------------------------------------
(* Properties of the P/CF columns (specification Spec)                     *)

\* The sectors of the input domain that name real estate or a REIT.
RealEstateLike ==
    { <<"R", "e", "a", "l", " ", "E", "s", "t", "a", "t", "e">>,
      <<"R", "E", "I", "T">>,
      <<"E", "q", "u", "i", "t", "y", " ", "R", "E", "I", "T", "s">> }

Missing(v) == v.tag \in {"nan", "none"}

Unvalued(v) == v.tag \in {"nan", "none"}

FfoEligible(r) ==
    r.sector \in RealEstateLike /\ r.ttm_ffo_proxy.tag = "float" /\ r.ttm_ffo_proxy.num > 0

SelectedCashFlow(r) == IF FfoEligible(r) THEN r.ttm_ffo_proxy ELSE r.ttm_ocf

Enriched == pc = "enriched"

\* C1: every enriched record whose market_cap is missing or <= 0, or whose
\* selected cash flow (ttm_ffo_proxy for a real-estate/REIT row with a positive
\* proxy, otherwise ttm_ocf) is missing, zero or negative, has an Unvalued pcf
\* (None or NaN); no enriched record carries a pcf that is zero or negative.
Thm_C1_UnvaluedWhenNoCashFlow ==
    Enriched =>
        \A i \in 1..Len(out) :
            LET r == df[i]
                c == SelectedCashFlow(r)
            IN  /\ (Missing(r.market_cap) \/ r.market_cap.num <= 0
                    \/ Missing(c) \/ c.num <= 0) => Unvalued(out[i].pcf)
                /\ out[i].pcf.tag = "float" => out[i].pcf.num > 0 /\ out[i].pcf.den > 0

\* A row with a positive market cap and a negative cash flow has been enriched.
Wit_C1_NegativeCashFlow ==
    /\ Enriched
    /\ \E i \in 1..Len(out) :
          /\ df[i].market_cap = F(MaxCap)
          /\ SelectedCashFlow(df[i]) = F(-1)
          /\ Unvalued(out[i].pcf)

\* C2: for every record with market_cap m > 0 and selected cash flow c > 0
\* the pcf is exactly m / c, unrounded, and strictly positive.
Thm_C2_ExactRatio ==
    Enriched =>
        \A i \in 1..Len(out) :
            LET m == df[i].market_cap
                c == SelectedCashFlow(df[i])
                p == out[i].pcf
            IN  (m.tag = "float" /\ m.num > 0 /\ c.tag = "float" /\ c.num > 0) =>
                    /\ p.tag = "float"
                    /\ p.den > 0
                    /\ p.num * c.num * m.den = m.num * c.den * p.den
                    /\ p.num > 0

\* A ratio that is no whole number has been computed: 4 / 3.
Wit_C2_FractionalRatio ==
    /\ Enriched
    /\ \E i \in 1..Len(out) :
          /\ df[i].market_cap = F(4)
          /\ SelectedCashFlow(df[i]) = F(3)
          /\ out[i].pcf = [tag |-> "float", num |-> 4, den |-> 3]

\* C3: cf_method is "FFO" if and only if the sector names real estate or a
\* REIT (in any letter case) and ttm_ffo_proxy is defined and > 0; in every
\* other case it is "OCF".
Thm_C3_CfMethod ==
    Enriched =>
        \A i \in 1..Len(out) :
            /\ out[i].cf_method \in {"FFO", "OCF"}
            /\ out[i].cf_method = "FFO" <=> FfoEligible(df[i])

\* An upper-case REIT row with a positive proxy has been labelled FFO.
Wit_C3_UpperCaseReit ==
    /\ Enriched
    /\ \E i \in 1..Len(out) :
          /\ df[i].sector = <<"R", "E", "I", "T">>
          /\ df[i].ttm_ffo_proxy = F(1)
          /\ out[i].cf_method = "FFO"

\* The cash-flow cell of row r that a cf_method value names.
NamedCashFlow(r, method) == IF method = "FFO" THEN r.ttm_ffo_proxy ELSE r.ttm_ocf

\* C4: for every record whose pcf is valued, the figure calculate_pcf divided
\* by is the one the cf_method column names: the method calculate_pcf settled
\* on equals the column, and pcf * (named cash flow) = market_cap.
Thm_C4_MethodsAgree ==
    Enriched =>
        \A i \in 1..Len(out) :
            LET r == df[i]
                l == calculate_pcf_locals(r)
                c == NamedCashFlow(r, out[i].cf_method)
                p == out[i].pcf
            IN  p.tag = "float" =>
                    /\ l.cf_method = out[i].cf_method
                    /\ l.cash_flow = c
                    /\ c.tag = "float"
                    /\ p.num * c.num * r.market_cap.den = r.market_cap.num * c.den * p.den

\* A real-estate row whose proxy and OCF are both positive and different has
\* been valued on its proxy.
Wit_C4_FfoChosenOverOcf ==
    /\ Enriched
    /\ \E i \in 1..Len(out) :
          /\ df[i].sector \in RealEstateLike
          /\ df[i].ttm_ffo_proxy = F(2)
          /\ df[i].ttm_ocf = F(3)
          /\ df[i].market_cap = F(4)
          /\ out[i].cf_method = "FFO"
          /\ out[i].pcf = F(2)

-----------------------------------------------------------------------------
(* Inputs of the trend columns                                             *)

Technology == <<"T", "e", "c", "h", "n", "o", "l", "o", "g", "y">>

\* A row whose revenue (or cash-flow) history and growth rate are h and g; the
\* other metric has an empty history and no growth rate, as a fetched row has.
TrendRow(h, g, metric) ==
    IF metric = "revenue"
    THEN Row(F(1), Technology, F(1), NaN, h, g, EmptyDict, None)
    ELSE Row(F(1), Technology, F(1), NaN, EmptyDict, None, h, g)

\* The dict with keys K and values f[k], inserted in ascending key order.
RECURSIVE ascending_items(_, _)
ascending_items(K, f) ==
    IF K = {} THEN <<>>
    ELSE LET k == CHOOSE k \in K : \A j \in K : k <= j
         IN  <<<<k, f[k]>>>> \o ascending_items(K \ {k}, f)

MaxHist == 3

TrendKeys == {0, 1, 2, 4}

TrendVals ==
    {NaN, None} \cup {F(v) : v \in {0, -110, -100, 39, 41, 81, 90, 99, 100, 101, 110, 121}}

InitTrend ==
    /\ \E K \in {K \in SUBSET TrendKeys : Cardinality(K) <= MaxHist} :
          \E f \in [K -> TrendVals], metric \in {"revenue", "cf"} :
              df = <<TrendRow(Dict(ascending_items(K, f)), None, metric)>>
    /\ out = <<>>
    /\ pc = "loaded"
    /\ fig = NoFigure
    /\ stats = NoStats
    /\ table = <<>>
    /\ hide_neg = TRUE
    /\ use_underval = TRUE
    /\ selected = 1
    /\ card = NoCard
    /\ picks = <<>>
    /\ ranking = <<>>
    /\ CacheUnused

SpecTrend == InitTrend /\ [][Next]_vars

-----------------------------------------------------------------------------
(* Properties of the trend columns                                         *)

\* The history and growth rate of the metric a trend row varies, and the
\* trend the enrichment gave it.
MetricHistory(r) ==
    IF r.revenue_history # EmptyDict \/ r.revenue_growth # None
    THEN r.revenue_history ELSE r.cf_history

MetricGrowth(r) ==
    IF r.revenue_history # EmptyDict \/ r.revenue_growth # None
    THEN r.revenue_growth ELSE r.earnings_growth

MetricTrend(o) ==
    IF o.revenue_history # EmptyDict \/ o.revenue_growth # None
    THEN o.revenue_trend ELSE o.cf_trend

\* The history as a set of years with their values.
HistKeys(h) == {h.items[i][1] : i \in 1..Len(h.items)}

ValueAt(h, k) == h.items[CHOOSE i \in 1..Len(h.items) : h.items[i][1] = k][2]

\* The (at most 5) most recent years, and those of them with a value.
RecentKeys(h) == {k \in HistKeys(h) : Cardinality({j \in HistKeys(h) : j > k}) < 5}

RetainedKeys(h) == {k \in RecentKeys(h) : ValueAt(h, k).tag = "float"}

\* The rank of year k among the most recent years, before and after entries
\* without a value are dropped.
RankBeforeDrop(h, k) == Cardinality({j \in RecentKeys(h) : j < k})

RankAfterDrop(h, k) == Cardinality({j \in RetainedKeys(h) : j < k})

RECURSIVE SumFn(_, _)
SumFn(f, S) ==
    IF S = {} THEN 0
    ELSE LET e == CHOOSE e \in S : TRUE IN f[e] + SumFn(f, S \ {e})

\* Least squares over the retained points (RankBeforeDrop, value): the slope is
\* SlopeNum / SlopeDen, with both sums taken over the pairs of points.
KeyPairs(h) == {p \in RetainedKeys(h) \X RetainedKeys(h) : p[1] < p[2]}

SlopeNum(h) ==
    SumFn([p \in KeyPairs(h) |->
              (RankBeforeDrop(h, p[2]) - RankBeforeDrop(h, p[1]))
              * (ValueAt(h, p[2]).num - ValueAt(h, p[1]).num)], KeyPairs(h))

SlopeDen(h) ==
    SumFn([p \in KeyPairs(h) |->
              (RankBeforeDrop(h, p[2]) - RankBeforeDrop(h, p[1]))
              * (RankBeforeDrop(h, p[2]) - RankBeforeDrop(h, p[1]))], KeyPairs(h))

SumAbs(h) == SumFn([k \in RetainedKeys(h) |-> Abs(ValueAt(h, k).num)], RetainedKeys(h))

\* slopeRatio = (SlopeNum / SlopeDen) / (SumAbs / n) against +0.05 and -0.05.
RatioAbove(h) ==
    20 * SlopeNum(h) * Cardinality(RetainedKeys(h)) > SlopeDen(h) * SumAbs(h)

RatioBelow(h) ==
    20 * SlopeNum(h) * Cardinality(RetainedKeys(h)) < -(SlopeDen(h) * SumAbs(h))

HistoryClassifies(h) == h.kind = "dict" /\ Cardinality(RetainedKeys(h)) >= 2

\* C5: a history with at least 2 values among its last 5 years and a non-zero
\* mean absolute value is Uptrend when slope / mean(|values|) > 0.05,
\* Downtrend when it is < -0.05 and Flat otherwise, the boundaries included;
\* {0:100, 1:110, 2:121} is Uptrend, {0:100, 1:90, 2:81} Downtrend and
\* {0:100, 1:101, 2:99} Flat.
Thm_C5_SlopeRatioThresholds ==
    Enriched =>
        \A i \in 1..Len(out) :
            LET h == MetricHistory(df[i])
                t == MetricTrend(out[i])
            IN  /\ (HistoryClassifies(h) /\ SumAbs(h) # 0) =>
                      t = IF RatioAbove(h) THEN "Uptrend"
                          ELSE IF RatioBelow(h) THEN "Downtrend"
                          ELSE "Flat"
                /\ h = Dict(<<<<0, F(100)>>, <<1, F(110)>>, <<2, F(121)>>>>) => t = "Uptrend"
                /\ h = Dict(<<<<0, F(100)>>, <<1, F(90)>>, <<2, F(81)>>>>) => t = "Downtrend"
                /\ h = Dict(<<<<0, F(100)>>, <<1, F(101)>>, <<2, F(99)>>>>) => t = "Flat"

\* The history {0: 39, 1: 41}, whose slope ratio is exactly 0.05, is Flat.
Wit_C5_BoundaryIsFlat ==
    /\ Enriched
    /\ \E i \in 1..Len(out) :
          /\ MetricHistory(df[i]) = Dict(<<<<0, F(39)>>, <<1, F(41)>>>>)
          /\ 20 * SlopeNum(MetricHistory(df[i])) * 2
               = SlopeDen(MetricHistory(df[i])) * SumAbs(MetricHistory(df[i]))
          /\ MetricTrend(out[i]) = "Flat"

\* The history with the entries that have no value removed.
RECURSIVE without_nan(_)
without_nan(items) ==
    IF items = <<>> THEN <<>>
    ELSE (IF Head(items)[2].tag = "float" THEN <<Head(items)>> ELSE <<>>)
         \o without_nan(Tail(items))

\* C6 as stated: the x-coordinate of a retained point is its rank among the
\* points that remain after the entries without a value are dropped, so a
\* history is classified like the same history with those entries removed.
Cex_C6_RankAfterDrop ==
    Enriched =>
        \A i \in 1..Len(out) :
            LET h == MetricHistory(df[i])
            IN  HistoryClassifies(h) =>
                    MetricTrend(out[i]) = calculate_trend(Dict(without_nan(h.items)))

\* The history with each year replaced by its rank among the years.
rekeyed(h) ==
    Dict([i \in 1..Len(h.items) |->
            <<Cardinality({j \in HistKeys(h) : j < h.items[i][1]}), h.items[i][2]>>])

\* C6 amended: the x-coordinate of each retained point is its 0-based rank
\* among the (at most 5) most recent entries before the entries without a
\* value are dropped, never its calendar year: replacing the years by their
\* ranks leaves the classification unchanged.
Thm_C6_RankBeforeDrop ==
    Enriched =>
        \A i \in 1..Len(out) :
            LET h == MetricHistory(df[i])
                p == regression_points(h, YEARS)
            IN  HistoryClassifies(h) =>
                    /\ Len(p.x) = Cardinality(RetainedKeys(h))
                    /\ \A k \in RetainedKeys(h) :
                          /\ p.x[RankAfterDrop(h, k) + 1] = RankBeforeDrop(h, k)
                          /\ p.y[RankAfterDrop(h, k) + 1] = ValueAt(h, k).num
                    /\ MetricTrend(out[i]) = calculate_trend(rekeyed(h))

\* {0: 100, 1: NaN, 2: 110} is Flat (x = 0, 2), although {0: 100, 2: 110}
\* is Uptrend.
Wit_C6_NanKeepsItsPosition ==
    /\ Enriched
    /\ \E i \in 1..Len(out) :
          /\ MetricHistory(df[i]) = Dict(<<<<0, F(100)>>, <<1, NaN>>, <<2, F(110)>>>>)
          /\ regression_points(MetricHistory(df[i]), YEARS).x = <<0, 2>>
          /\ MetricTrend(out[i]) = "Flat"
          /\ calculate_trend(Dict(<<<<0, F(100)>>, <<2, F(110)>>>>)) = "Uptrend"

\* C8: when every retained value of a history with at least 2 retained points
\* is zero, the trend is Flat (not N/A, no division by zero).
Thm_C8_ZeroMeanIsFlat ==
    Enriched =>
        \A i \in 1..Len(out) :
            LET h == MetricHistory(df[i])
            IN  (HistoryClassifies(h) /\ \A k \in RetainedKeys(h) : ValueAt(h, k).num = 0)
                    => MetricTrend(out[i]) = "Flat"

\* An all-zero history with a NaN entry has been enriched.
Wit_C8_AllZero ==
    /\ Enriched
    /\ \E i \in 1..Len(out) :
          /\ MetricHistory(df[i]) = Dict(<<<<0, F(0)>>, <<1, NaN>>, <<2, F(0)>>>>)
          /\ MetricTrend(out[i]) = "Flat"

-----------------------------------------------------------------------------
(* Histories of up to 6 years in every insertion order                     *)

WindowKeys == {2018, 2019, 2020, 2021, 2022, 2023}

WindowVals == {F(0), F(1)}

Orderings(K) ==
    {o \in [1..Cardinality(K) -> K] : \A i, j \in 1..Cardinality(K) : i # j => o[i] # o[j]}

\* The dict with values f[k], its keys inserted in the order o.
ordered_dict(o, f) == Dict([i \in 1..Len(o) |-> <<o[i], f[o[i]]>>])

InitWindow ==
    /\ \E K \in SUBSET WindowKeys :
          \E o \in Orderings(K), f \in [K -> WindowVals] :
              df = <<TrendRow(ordered_dict(o, f), None, "revenue")>>
    /\ out = <<>>
    /\ pc = "loaded"
    /\ fig = NoFigure
    /\ stats = NoStats
    /\ table = <<>>
    /\ hide_neg = TRUE
    /\ use_underval = TRUE
    /\ selected = 1
    /\ card = NoCard
    /\ picks = <<>>
    /\ ranking = <<>>
    /\ CacheUnused

SpecWindow == InitWindow /\ [][Next]_vars

\* The entries of the most recent years, oldest first.
recent_items(h) ==
    [i \in 1..Cardinality(RecentKeys(h)) |->
        LET k == CHOOSE k \in RecentKeys(h) : RankBeforeDrop(h, k) = i - 1
        IN  <<k, ValueAt(h, k)>>]

\* C7: the trend depends only on the entries with the 5 largest years, taken
\* in ascending year order: it is the trend of the history that holds just
\* those entries, inserted oldest first, whatever the insertion order and
\* whatever the older entries are.
Thm_C7_LastFiveYearsOnly ==
    Enriched =>
        \A i \in 1..Len(out) :
            LET h == MetricHistory(df[i])
            IN  h.kind = "dict" =>
                    MetricTrend(out[i]) = calculate_trend(Dict(recent_items(h)))

\* Six years inserted newest first, the oldest the only non-zero one: Flat.
Wit_C7_OldEntryIgnored ==
    /\ Enriched
    /\ \E i \in 1..Len(out) :
          /\ MetricHistory(df[i]) =
                Dict(<<<<2023, F(0)>>, <<2022, F(0)>>, <<2021, F(0)>>,
                       <<2020, F(0)>>, <<2019, F(0)>>, <<2018, F(1)>>>>)
          /\ MetricTrend(out[i]) = "Flat"

-----------------------------------------------------------------------------
(* Histories that may or may not classify, with a growth rate              *)

MaxGrowth == 6

\* Growth rates in hundredths, NaN and None.
GrowthVals == {NaN, None} \cup {Q(n, 100) : n \in -MaxGrowth..MaxGrowth}

FallbackKeys == <<2018, 2019, 2020, 2021, 2022, 2023>>

FallbackVals == {NaN, F(1), F(3)}

InitFallback ==
    /\ \/ \E k \in 0..Len(FallbackKeys) :
             \E v \in [1..k -> FallbackVals], g \in GrowthVals, metric \in {"revenue", "cf"} :
                 df = <<TrendRow(Dict([i \in 1..k |-> <<FallbackKeys[i], v[i]>>]), g, metric)>>
       \/ \E kind \in {"none", "nan", "list"}, g \in GrowthVals, metric \in {"revenue", "cf"} :
             df = <<TrendRow(NotADict(kind), g, metric)>>
    /\ out = <<>>
    /\ pc = "loaded"
    /\ fig = NoFigure
    /\ stats = NoStats
    /\ table = <<>>
    /\ hide_neg = TRUE
    /\ use_underval = TRUE
    /\ selected = 1
    /\ card = NoCard
    /\ picks = <<>>
    /\ ranking = <<>>
    /\ CacheUnused

SpecFallback == InitFallback /\ [][Next]_vars

\* The classification of a growth rate alone.
GrowthClass(g) ==
    IF Missing(g) THEN "N/A"
    ELSE IF 20 * g.num > g.den THEN "Uptrend"
    ELSE IF 20 * g.num < -g.den THEN "Downtrend"
    ELSE "Flat"

Thm_C10_FallbackOnlyWithoutHistory ==
    Enriched =>
        \A i \in 1..Len(out) :
            LET h == MetricHistory(df[i])
                t == MetricTrend(out[i])
            IN  IF HistoryClassifies(h)
                THEN /\ t \in {"Uptrend", "Downtrend", "Flat"}
                     /\ t = calculate_trend(h)
                     /\ \A g \in GrowthVals : determine_trend(h, g) = t
                ELSE /\ calculate_trend(h) = "N/A"
                     /\ t = determine_trend(EmptyDict, MetricGrowth(df[i]))
                     /\ determine_trend(h, None) = "N/A"
                     /\ determine_trend(h, Q(1, 10)) = "Uptrend"

\* Six years of which only the oldest and the newest have a value: one value
\* among the last five, so the growth rate decides.
Wit_C10_OneValueInWindow ==
    /\ Enriched
    /\ \E i \in 1..Len(out) :
          /\ MetricHistory(df[i]) =
                Dict(<<<<2018, F(1)>>, <<2019, NaN>>, <<2020, NaN>>,
                       <<2021, NaN>>, <<2022, NaN>>, <<2023, F(3)>>>>)
          /\ MetricGrowth(df[i]) = Q(-6, 100)
          /\ MetricTrend(out[i]) = "Downtrend"

-----------------------------------------------------------------------------
(* Properties of frames of several rows (specification SpecBatch)          *)

\* The input columns of an enriched row.
InputsOf(r) ==
    Row(r.market_cap, r.sector, r.ttm_ocf, r.ttm_ffo_proxy,
        r.revenue_history, r.revenue_growth, r.cf_history, r.earnings_growth)

\* The derived fields of an enriched row, as stored and with the two
\* representations of an Unvalued pcf (None, NaN) identified.
Derived(r) ==
    <<r.pcf, r.cf_method, r.revenue_trend, r.cf_trend, r.pcf_display, r.market_cap_b>>

DerivedUpToUnvalued(r) ==
    <<IF Unvalued(r.pcf) THEN NaN ELSE r.pcf,
      r.cf_method, r.revenue_trend, r.cf_trend, r.pcf_display, r.market_cap_b>>

\* Row i of the frame enriched as a frame of its own.
Alone(i) == process_dataframe(<<df[i]>>)[1]

\* C11 as stated: one enriched row per input row in the input order, and the
\* derived fields of each row are exactly those the row gets in any other
\* batch, here the batch of that row alone.
Cex_C11_DerivedFieldsPerRow ==
    Enriched =>
        /\ Len(out) = Len(df)
        /\ \A i \in 1..Len(df) :
              /\ InputsOf(out[i]) = df[i]
              /\ Derived(out[i]) = Derived(Alone(i))

\* C11 amended: one enriched row per input row in the input order; whether a
\* row's pcf is Unvalued, its value when valued, and cf_method, both trends,
\* pcf_display and market_cap_b depend on the row's own inputs only.  Which of
\* None and NaN stands for an Unvalued pcf depends on the other rows.
Thm_C11_PerRowUpToUnvalued ==
    Enriched =>
        /\ Len(out) = Len(df)
        /\ \A i \in 1..Len(df) :
              /\ InputsOf(out[i]) = df[i]
              /\ DerivedUpToUnvalued(out[i]) = DerivedUpToUnvalued(Alone(i))

\* A row whose pcf is None on its own has NaN next to a valued row, which in
\* turn has the pcf it has on its own.
Wit_C11_NoneBecomesNaN ==
    /\ Enriched
    /\ Len(df) = 2
    /\ Alone(1).pcf = None /\ out[1].pcf = NaN
    /\ out[2].pcf = F(5) /\ Alone(2).pcf = F(5)

\* The conditions of a row that the enrichment absorbs.
NoUsableCashFlow(r) ==
    LET c == SelectedCashFlow(r) IN Missing(c) \/ c.num <= 0

NoTrendData(h, g) == ~HistoryClassifies(h) /\ Missing(g)

\* C12: process_dataframe raises for no frame of rows whose numeric fields are
\* numbers, NaN or None: every row is enriched, a row with a missing market
\* cap or with a missing, zero or negative cash flow is Unvalued, and a metric
\* with an empty, single-point or all-NaN history and no growth rate has the
\* trend "N/A", whatever the other rows are.
Thm_C12_NeverRaises ==
    /\ pc # "raised"
    /\ Enriched =>
          /\ Len(out) = Len(df)
          /\ \A i \in 1..Len(df) :
                /\ Missing(df[i].market_cap) \/ NoUsableCashFlow(df[i])
                      => Unvalued(out[i].pcf) /\ out[i].pcf_display = STR_NA
                /\ NoTrendData(df[i].revenue_history, df[i].revenue_growth)
                      => out[i].revenue_trend = "N/A"
                /\ NoTrendData(df[i].cf_history, df[i].earnings_growth)
                      => out[i].cf_trend = "N/A"
                /\ out[i].cf_method \in {"OCF", "FFO"}

\* A REIT row whose FFO proxy is None, a row without market cap and a row with
\* a single-point and an all-NaN history have been enriched in one frame.
Wit_C12_EdgeRowsEnriched ==
    /\ Enriched
    /\ Len(out) = 3
    /\ df[1].sector = REIT /\ df[1].ttm_ffo_proxy = None /\ out[1].pcf = Q(5, 4)
    /\ df[2].market_cap = NaN /\ Unvalued(out[2].pcf)
    /\ Len(df[3].revenue_history.items) = 1 /\ out[3].revenue_trend = "N/A"
    /\ out[3].cf_trend = "N/A" /\ out[3].pcf = F(20)

-----------------------------------------------------------------------------
(* Properties of the display columns (specification SpecDisplay)           *)

\* The decimal numeral of t tenths: the integer part, a point, one digit.
OneDecimal(t) == str_nat(t \div 10) \o <<".">> \o str_nat(t % 10)

\* t / 10 is a multiple of 0.1 nearest to the positive number v.
NearestTenths(v, t) == 2 * Abs(10 * v.num - t * v.den) <= v.den

\* b = cap / 10^9 for a market cap that is a whole number.
IsBillionth(b, cap) ==
    /\ b.tag = "float" /\ cap.den = 1
    /\ 1000000000 % b.den = 0
    /\ b.num * (1000000000 \div b.den) = cap.num

\* C14: in every enriched record pcf_display is "N/A" exactly when pcf is
\* Unvalued, and otherwise the numeral of pcf rounded to one decimal place
\* followed by "x"; market_cap_b is market_cap / 10^9, NaN for a missing
\* market cap.
Thm_C14_DisplayColumns ==
    Enriched =>
        \A i \in 1..Len(out) :
            LET r == out[i]
            IN  /\ (r.pcf_display = STR_NA) <=> Unvalued(r.pcf)
                /\ ~Unvalued(r.pcf) =>
                      \E t \in 0..(10 * MaxDisplayCap + 10) :
                          /\ NearestTenths(r.pcf, t)
                          /\ r.pcf_display = OneDecimal(t) \o <<"x">>
                /\ IF Missing(df[i].market_cap) THEN r.market_cap_b = NaN
                   ELSE IsBillionth(r.market_cap_b, df[i].market_cap)

\* A pcf of 2/3 is shown as "0.7x", its market cap of 2 as 2 / 10^9.
Wit_C14_RoundedUp ==
    /\ Enriched
    /\ out[1].pcf = Q(2, 3)
    /\ out[1].pcf_display = <<"0", ".", "7", "x">>
    /\ out[1].market_cap_b = Q(1, 500000000)

\* C15: for every display string x of a valued P/CF (a one-decimal numeral
\* followed by "x"), parsing x with the table's sort key or with the seed
\* loader's cleaning and formatting the number again gives x.
Thm_C15_FormatParseRoundTrip ==
    Rendered =>
        \A k \in 1..Len(table) :
            LET x == out[table[k].idx].pcf_display
            IN  x # STR_NA =>
                    /\ pcf_display(table[k].key) = x
                    /\ pcf_display(seed_to_numeric(x)) = x

\* "12.3x" has been parsed to 12.3 for the table.
Wit_C15_TwelvePointThree ==
    /\ Rendered
    /\ out[1].pcf = Q(37, 3)
    /\ out[1].pcf_display = <<"1", "2", ".", "3", "x">>
    /\ table[1].key = Q(123, 10)

-----------------------------------------------------------------------------
(* Properties of the summary (specification SpecBatch)                     *)

\* The rows with a defined pcf > 0, and their pcf values.
ValidRows == {i \in 1..Len(out) : out[i].pcf.tag = "float" /\ out[i].pcf.num > 0}

Pcf(i) == out[i].pcf

CountBelow(i) == Cardinality({j \in ValidRows : FLt(Pcf(j), Pcf(i))})

CountUpTo(i) == Cardinality({j \in ValidRows : ~FLt(Pcf(i), Pcf(j))})

\* Row i holds the k-th smallest valid pcf.
IsKthSmallest(i, k) == CountBelow(i) < k /\ k <= CountUpTo(i)

\* m is the median of the valid pcf values: the middle one, or half the sum
\* of the two middle ones.
IsMedian(m) ==
    LET n == Cardinality(ValidRows)
    IN  \E a, b \in ValidRows :
            /\ IsKthSmallest(a, (n + 1) \div 2)
            /\ IsKthSmallest(b, n \div 2 + 1)
            /\ 2 * m.num * Pcf(a).den * Pcf(b).den
                  = m.den * (Pcf(a).num * Pcf(b).den + Pcf(b).num * Pcf(a).den)

RECURSIVE ProdDen(_)
ProdDen(S) ==
    IF S = {} THEN 1
    ELSE LET i == CHOOSE i \in S : TRUE IN Pcf(i).den * ProdDen(S \ {i})

\* The sum of the valid pcf values times the product of their denominators.
RECURSIVE SumScaled(_, _)
SumScaled(S, d) ==
    IF S = {} THEN 0
    ELSE LET i == CHOOSE i \in S : TRUE
         IN  Pcf(i).num * (d \div Pcf(i).den) + SumScaled(S \ {i}, d)

\* m is the mean of the valid pcf values.
IsMean(m) ==
    LET d == ProdDen(ValidRows)
    IN  m.num * d * Cardinality(ValidRows) = m.den * SumScaled(ValidRows, d)

\* The text shows the number m to one decimal place, followed by "x".
Shows(text, m) ==
    \E t \in 0..300 : NearestTenths(m, t) /\ text = OneDecimal(t) \o <<"x">>

\* C16: get_summary_stats counts as valid exactly the rows with a defined
\* pcf > 0, reports total minus valid as negative_cf, shows the median and the
\* mean of the valid rows' pcf, and shows "N/A" for both when no row is valid.
Thm_C16_SummaryStats ==
    Rendered =>
        /\ stats.total = Len(out)
        /\ stats.valid = Cardinality(ValidRows)
        /\ stats.negative_cf = stats.total - stats.valid
        /\ stats.valid + stats.negative_cf = stats.total
        /\ IF ValidRows = {}
           THEN stats.median_pcf = STR_NA /\ stats.mean_pcf = STR_NA
           ELSE /\ \E a, b \in ValidRows :
                      \E m \in {FDiv(FAdd(Pcf(a), Pcf(b)), F(2))} :
                          IsMedian(m) /\ Shows(stats.median_pcf, m)
                /\ \E m \in {Q(SumScaled(ValidRows, ProdDen(ValidRows)),
                               ProdDen(ValidRows) * Cardinality(ValidRows))} :
                      IsMean(m) /\ Shows(stats.mean_pcf, m)

\* Two valid rows (P/CF 5 and 20) and one with negative cash flow: median and
\* mean are both 12.5.
Wit_C16_TwoValidOfThree ==
    /\ Rendered
    /\ stats.total = 3 /\ stats.valid = 2 /\ stats.negative_cf = 1
    /\ {Pcf(i) : i \in ValidRows} = {F(5), F(20)}
    /\ stats.median_pcf = <<"1", "2", ".", "5", "x">>
    /\ stats.mean_pcf = <<"1", "2", ".", "5", "x">>

-----------------------------------------------------------------------------
(* Properties of the treemap (specification SpecBatch)                     *)

\* The rows that have a tile, and the tile of such a row.
TileRows == {fig.tiles[k].idx : k \in 1..Len(fig.tiles)}

TileOf(i) == fig.tiles[CHOOSE k \in 1..Len(fig.tiles) : fig.tiles[k].idx = i]

UnvaluedRows == {i \in 1..Len(out) : Unvalued(out[i].pcf)}

PositiveCapRows ==
    {i \in 1..Len(out) : out[i].market_cap.tag = "float" /\ out[i].market_cap.num > 0}

\* C17: with hide_negative_cf set the treemap has a tile for every valued
\* record and for no Unvalued record: the number of tiles is the number of
\* records minus the number of Unvalued records.
Thm_C17_HideOmitsUnvalued ==
    Rendered /\ hide_neg =>
        /\ TileRows = (1..Len(out)) \ UnvaluedRows
        /\ Len(fig.tiles) = Len(out) - Cardinality(UnvaluedRows)

\* Two records, one of them Unvalued: one tile, that of the valued record.
Wit_C17_OneOfTwoHidden ==
    /\ Rendered /\ hide_neg
    /\ Len(out) = 2
    /\ out[1].pcf = NaN /\ out[1].market_cap = F(20) /\ out[2].pcf = F(20)
    /\ Len(fig.tiles) = 1
    /\ fig.tiles[1].idx = 2

\* C18 as stated: a record has no tile only when hide_negative_cf is set and
\* its pcf is Unvalued; without the flag there is one tile per record.
Cex_C18_OneTilePerRecord ==
    Rendered =>
        /\ \A i \in 1..Len(out) : i \notin TileRows => hide_neg /\ Unvalued(out[i].pcf)
        /\ ~hide_neg => Len(fig.tiles) = Len(out)

\* C18 amended: a record whose market cap is missing or not positive has no
\* tile, whatever the flag; without the flag there is exactly one tile per
\* record with a positive market cap, in the input order, and such a record
\* has no tile only when the flag is set and its pcf is Unvalued.
Thm_C18_OneTilePerPositiveCap ==
    Rendered =>
        /\ TileRows \subseteq PositiveCapRows
        /\ \A i \in PositiveCapRows : i \notin TileRows => hide_neg /\ Unvalued(out[i].pcf)
        /\ ~hide_neg =>
              /\ TileRows = PositiveCapRows
              /\ Len(fig.tiles) = Cardinality(PositiveCapRows)
              /\ \A k \in 1..(Len(fig.tiles) - 1) : fig.tiles[k].idx < fig.tiles[k + 1].idx

\* Without the flag: the record without market cap has no tile, the record
\* with negative cash flow and the valued record have theirs.
Wit_C18_MissingCapDropped ==
    /\ Rendered /\ ~hide_neg
    /\ Len(out) = 3
    /\ out[1].market_cap = NaN
    /\ out[2].ttm_ocf = F(-2) /\ out[3].pcf = F(5)
    /\ TileRows = {2, 3}

\* C19 as stated: when size_by_undervalue is not set a valued record's tile
\* has its market_cap as value and an Unvalued record's tile has 1000.
Cex_C19_UnvaluedTileIs1000 ==
    Rendered /\ ~use_underval =>
        \A i \in TileRows :
            TileOf(i).value = IF Unvalued(out[i].pcf) THEN F(1000) ELSE out[i].market_cap

\* C19 amended: when size_by_undervalue is not set every tile, of a valued
\* and of an Unvalued record alike, has the record's market_cap as value; an
\* Unvalued record's tile has the value 1000 only when size_by_undervalue is
\* set.
Thm_C19_MarketCapSizesEveryTile ==
    Rendered =>
        \A i \in TileRows :
            /\ ~use_underval => TileOf(i).value = out[i].market_cap
            /\ use_underval /\ Unvalued(out[i].pcf) => TileOf(i).value = F(1000)

\* Sized by market cap, the tile of a record with negative cash flow and a
\* market cap of 20 has the value 20.
Wit_C19_UnvaluedTileHasMarketCap ==
    /\ Rendered /\ ~use_underval /\ ~hide_neg
    /\ \E i \in TileRows :
          /\ Unvalued(out[i].pcf)
          /\ out[i].market_cap = F(20)
          /\ TileOf(i).value = F(20)

\* C20: when size_by_undervalue is set a valued record's tile has the value
\* 1,000,000 / pcf, whatever its market cap: of two valued records the one
\* with the larger pcf has the strictly smaller tile and the values are in the
\* inverse ratio of the pcf values; an Unvalued record's tile has 1000.
Thm_C20_UndervaluationSizes ==
    Rendered /\ use_underval =>
        /\ \A i \in TileRows :
              LET v == TileOf(i).value
                  p == out[i].pcf
              IN  IF Unvalued(p) THEN v = F(1000)
                  ELSE v.tag = "float" /\ v.num * p.num = 1000000 * v.den * p.den
        /\ \A i, j \in TileRows \ UnvaluedRows :
              LET v == TileOf(i).value
                  w == TileOf(j).value
                  p == out[i].pcf
                  q == out[j].pcf
              IN  /\ FLt(p, q) => FLt(w, v)
                  /\ v.num * p.num * w.den * q.den = w.num * q.num * v.den * p.den

\* P/CF 5 and P/CF 20 with the same market cap: values 200000 and 50000, 4:1.
Wit_C20_FourToOne ==
    /\ Rendered /\ use_underval
    /\ Len(out) = 2
    /\ out[1].pcf = F(5) /\ out[2].pcf = F(20)
    /\ out[1].market_cap = out[2].market_cap
    /\ fig.tiles[1].value = F(200000) /\ fig.tiles[2].value = F(50000)
    /\ fig.tiles[1].value.num = 4 * fig.tiles[2].value.num

-----------------------------------------------------------------------------
(* Properties of grades and colours (specification SpecDisplay)            *)

\* The grade of a pcf: upper-inclusive buckets at 10, 15 and 20.
Bucket(p) ==
    IF Unvalued(p) \/ p.num <= 0 THEN "N/A"
    ELSE IF p.num <= 10 * p.den THEN "Undervalued"
    ELSE IF p.num <= 15 * p.den THEN "Neutral"
    ELSE IF p.num <= 20 * p.den THEN "SlightlyOvervalued"
    ELSE "Overvalued"

\* Values of pcf no enriched row carries, to complete the domain.
OtherPcf == {None, NaN, F(0), F(-1), Q(-21, 2)}

\* C21: the grade is a total function of pcf with upper-inclusive buckets
\* (<= 10 Undervalued, <= 15 Neutral, <= 20 Slightly overvalued, above that
\* Overvalued, Unvalued or non-positive not applicable), and a tile of the
\* treemap and the result card give every pcf the same grade.
Thm_C21_GradeBuckets ==
    Rendered =>
        /\ card.grade = Bucket(out[card.idx].pcf)
        /\ \A k \in 1..Len(fig.tiles) :
              fig.tiles[k].grade = Bucket(out[fig.tiles[k].idx].pcf)
        /\ \A p \in OtherPcf \cup {out[1].pcf} :
              LET r == [out[1] EXCEPT !.pcf = p]
              IN  /\ tile(r, 1, use_underval).grade = Bucket(p)
                  /\ render_search_result(<<r>>, 1).grade = Bucket(p)

\* A pcf of exactly 15 is Neutral on its tile and on its card.
Wit_C21_FifteenIsNeutral ==
    /\ Rendered
    /\ out[1].pcf = F(15)
    /\ Len(fig.tiles) = 1 /\ fig.tiles[1].grade = "Neutral"
    /\ card.idx = 1 /\ card.grade = "Neutral"

\* The position of a valued pcf on the scale: pcf / 30, at most 1.
IsPosition(x, p) ==
    /\ x.tag = "float" /\ x.num >= 0 /\ x.num <= x.den
    /\ IF p.num >= 30 * p.den THEN x = F(1)
       ELSE x.num * 30 * p.den = p.num * x.den

\* c is the colour of the scale at position x: on the line between two
\* neighbouring stops that enclose x.
IsColourAt(c, x) ==
    \E j \in 1..(Len(CUSTOM_COLORSCALE) - 1) :
        LET lo == CUSTOM_COLORSCALE[j]
            hi == CUSTOM_COLORSCALE[j + 1]
            w  == FSub(hi.at, lo.at)
            d  == FSub(x, lo.at)
        IN  /\ ~FLt(x, lo.at) /\ ~FLt(hi.at, x)
            /\ \A ch \in 1..3 :
                  (c[ch].num - lo.rgb[ch] * c[ch].den) * w.num * d.den
                     = d.num * w.den * (hi.rgb[ch] - lo.rgb[ch]) * c[ch].den

LastStop == CUSTOM_COLORSCALE[Len(CUSTOM_COLORSCALE)]

\* C22: the tile of an Unvalued record is grey #b0b0b0; the tile of a valued
\* record has the colour of the 9-stop scale at the position pcf / 30 clamped
\* to [0, 1], which is the colour of the last stop for every pcf >= 30; after
\* the batch fill no tile has the placeholder as colour.
Thm_C22_TileColours ==
    Rendered =>
        \A k \in 1..Len(fig.tiles) :
            LET t == fig.tiles[k]
                p == out[t.idx].pcf
            IN  IF Unvalued(p) THEN t.color = GREY_COLOR
                ELSE    /\ t.color # None
                        /\ IsPosition(t.norm, p)
                        /\ IsColourAt(t.color.rgb, t.norm)
                        /\ p.num >= 30 * p.den =>
                              t.color.rgb = [c \in 1..3 |-> F(LastStop.rgb[c])]

\* A pcf of 60 is at position 1 and has the dark red of the last stop.
Wit_C22_SixtyIsLastStop ==
    /\ Rendered
    /\ out[1].pcf = F(60)
    /\ Len(fig.tiles) = 1
    /\ fig.tiles[1].norm = F(1)
    /\ fig.tiles[1].color.rgb = <<F(165), F(0), F(38)>>

\* The colour family of a stop, from the name the source gives its colour.
Family(k) ==
    IF k <= 3 THEN "green" ELSE IF k <= 5 THEN "blue"
    ELSE IF k = 6 THEN "purple" ELSE "red"

\* The families a sampled colour belongs to: those of the stops it lies
\* between, or of the one stop it lies on.
Families(c) ==
    IF c.rgb = [ch \in 1..3 |-> F(CUSTOM_COLORSCALE[c.high].rgb[ch])]
    THEN {Family(c.high)}
    ELSE {Family(c.low), Family(c.high)}

GradeFamily(grade) ==
    IF grade = "Undervalued" THEN "green"
    ELSE IF grade = "Neutral" THEN "blue"
    ELSE IF grade = "SlightlyOvervalued" THEN "orange"
    ELSE "red"

\* C23: the colour of a valued tile belongs to the family of its grade: green
\* for pcf <= 10, blue for 10 to 15, orange for 15 to 20, red above 20.
Cex_C23_ColourFamilyMatchesGrade ==
    Rendered =>
        \A k \in 1..Len(fig.tiles) :
            ~fig.tiles[k].na =>
                GradeFamily(Bucket(out[fig.tiles[k].idx].pcf)) \in Families(fig.tiles[k].color)

-----------------------------------------------------------------------------
(* Frame effect of process_dataframe and build_treemap (SpecBatch)         *)

InputColumns ==
    {"market_cap", "sector", "ttm_ocf", "ttm_ffo_proxy", "revenue_history",
     "revenue_growth", "cf_history", "earnings_growth"}

DerivedColumns ==
    {"pcf", "cf_method", "revenue_trend", "cf_trend", "pcf_display", "market_cap_b"}

-----------------------------------------------------------------------------
(* calculate_pcf on an absent cash flow (specification Spec)               *)

\* C25: calculate_pcf returns None whenever the usable cash flow is absent,
\* zero or negative, a ttm_ocf of exactly 0 or a missing ttm_ocf on a row that
\* does not qualify for FFO included: it returns neither NaN nor a number.
Cex_C25_NoneWhenNoCashFlow ==
    Enriched =>
        \A i \in 1..Len(df) :
            NoUsableCashFlow(df[i]) => calculate_pcf(df[i]) = None

\* What an absent-aware valuation gives a record: the pcf (None for Unvalued)
\* and the method.  An absent market cap or cash flow is Unvalued, an absent
\* proxy is not eligible for FFO; zero is a number like any other.
Reference(r) ==
    LET real_estate == r.sector \in RealEstateLike
        eligible    == real_estate /\ ~Missing(r.ttm_ffo_proxy) /\ r.ttm_ffo_proxy.num > 0
        flow        == IF eligible THEN r.ttm_ffo_proxy ELSE r.ttm_ocf
        valued      == /\ ~Missing(r.market_cap) /\ r.market_cap.num > 0
                       /\ ~Missing(flow) /\ flow.num > 0
    IN  [valued |-> valued,
         method |-> IF eligible THEN "FFO" ELSE "OCF",
         pcf    |-> IF valued THEN FDiv(r.market_cap, flow) ELSE None]

\* C26: coercing a missing market_cap, ttm_ocf or ttm_ffo_proxy to 0.0 in
\* calculate_pcf preserves the outcome: every record is valued or Unvalued,
\* has the method and has the pcf value that the absent-aware valuation gives.
Thm_C26_CoercionPreservesOutcome ==
    Enriched =>
        \A i \in 1..Len(out) :
            LET ref == Reference(df[i])
            IN  /\ ~Unvalued(out[i].pcf) <=> ref.valued
                /\ ref.valued => out[i].pcf = ref.pcf
                /\ out[i].cf_method = ref.method
                /\ ref.valued => calculate_pcf_locals(df[i]).cf_method = ref.method

\* A real-estate record whose proxy is absent is valued by its operating
\* cash flow, and one whose market cap is absent is Unvalued.
Wit_C26_AbsentProxyFallsBackToOcf ==
    /\ Enriched
    /\ Len(df) = 1
    /\ df[1].sector \in RealEstateLike
    /\ Missing(df[1].ttm_ffo_proxy)
    /\ df[1].market_cap = F(4) /\ df[1].ttm_ocf = F(2)
    /\ out[1].pcf = F(2) /\ out[1].cf_method = "OCF"

-----------------------------------------------------------------------------
(* disk_cache.py and the loaders of app.py                                 *)
(*                                                                         *)
(* The disk is the set of files present, a file being [path, content]; a   *)
(* pickled frame has the content [tag "frame", rows], a pickled metadata   *)
(* dict [tag "meta", timestamp], a file opened for writing and not yet     *)
(* written [tag "partial"], a seed CSV [tag "csv", rows].                  *)

CACHE_TTL == 86400

CACHE_DIR == <<"d", "a", "t", "a", "_", "c", "a", "c", "h", "e", "/">>

\* Variant of _cache_path that leaves the limit out of the file name.
_cache_path_no_limit(market, limit) ==
    CACHE_DIR \o market \o <<".", "p", "k", "l">>

\* _cache_path: f"{market}_{limit}.pkl" in CACHE_DIR
_cache_path(market, limit) ==
    CACHE_DIR \o market \o <<"_">> \o str_nat(limit) \o <<".", "p", "k", "l">>

\* _meta_path: f"{market}_{limit}_meta.pkl" in CACHE_DIR
_meta_path(market, limit) ==
    CACHE_DIR \o market \o <<"_">> \o str_nat(limit)
        \o <<"_", "m", "e", "t", "a", ".", "p", "k", "l">>

exists(d, path) == \E f \in d : f.path = path

read(d, path) == (CHOOSE f \in d : f.path = path).content

write(d, path, content) ==
    {f \in d : f.path # path} \cup {[path |-> path, content |-> content]}

Pickled(rows) == [tag |-> "frame", rows |-> rows]

Meta(ts) == [tag |-> "meta", timestamp |-> ts]

Partial == [tag |-> "partial"]

\* load_cached: (None, None) without a data file or when unpickling raises;
\* otherwise the frame with the timestamp of the metadata file, None when
\* there is no metadata file.
load_cached(d, market, limit) ==
    LET cp == _cache_path(market, limit)
        mp == _meta_path(market, limit)
    IN  IF ~exists(d, cp) THEN <<None, None>>
        ELSE IF read(d, cp).tag # "frame" THEN <<None, None>>
        ELSE IF ~exists(d, mp) THEN <<read(d, cp), None>>
        ELSE IF read(d, mp).tag # "meta" THEN <<None, None>>
        ELSE <<read(d, cp), read(d, mp).timestamp>>

\* save_cache run to its end at time t: the data file, then the metadata
\* file with time.time().
save_cache(d, t, market, limit, rows) ==
    write(write(d, _cache_path(market, limit), Pickled(rows)),
          _meta_path(market, limit), Meta(F(t)))

\* is_stale at time t
is_stale(d, t, market, limit) ==
    LET ts == load_cached(d, market, limit)[2]
    IN  IF ts = None THEN TRUE ELSE GtRat(FSub(F(t), ts), CACHE_TTL, 1)

\* The parameters of is_stale(market, limit).
is_stale_params == {"market", "limit"}

\* A call with keyword arguments raises TypeError when a keyword names no
\* parameter of the function.
call_raises(params, keywords) == ~(keywords \subseteq params)

KOREA == <<"K", "o", "r", "e", "a">>

JAPAN == <<"J", "a", "p", "a", "n">>

USA_SP500 == <<"U", "S", "A", "_", "S", "P", "5", "0", "0">>

USA_NASDAQ == <<"U", "S", "A", "_", "N", "A", "S", "D", "A", "Q">>

EUROPE == <<"E", "u", "r", "o", "p", "e">>

FETCHERS == {KOREA, USA_SP500, USA_NASDAQ, JAPAN, EUROPE}

SEEDS_DIR == <<"s", "e", "e", "d", "s", "/">>

startswith(s, prefix) == Len(s) >= Len(prefix) /\ SubSeq(s, 1, Len(prefix)) = prefix

\* filename_map of load_from_seed, and the rule for the other USA keys; the
\* empty name for a key without a seed file.
seed_name(market_key) ==
    IF market_key \in {KOREA, <<"K", "O", "S", "P", "I">>}
    THEN <<"k", "o", "r", "e", "a", ".", "c", "s", "v">>
    ELSE IF market_key \in {JAPAN, <<"N", "i", "k", "k", "e", "i">>}
    THEN <<"j", "a", "p", "a", "n", ".", "c", "s", "v">>
    ELSE IF market_key \in {EUROPE, <<"E", "u", "r", "o">>}
    THEN <<"e", "u", "r", "o", "p", "e", ".", "c", "s", "v">>
    ELSE IF startswith(market_key, <<"U", "S", "A">>)
    THEN <<"u", "s", "a", ".", "c", "s", "v">>
    ELSE <<>>

seed_path(market_key) ==
    IF seed_name(market_key) = <<>> THEN <<>> ELSE SEEDS_DIR \o seed_name(market_key)

\* load_from_seed: the rows of the seed file, an empty frame without one.
load_from_seed(d, market_key) ==
    LET path == seed_path(market_key)
    IN  IF path = <<>> \/ ~exists(d, path) THEN <<>> ELSE read(d, path).rows

\* What the network gave the live fetch: an exception, or the fetched rows
\* (none for an empty stock list or an empty frame).
FetchRaised == [kind |-> "raise", rows |-> <<>>]

Fetched(rows) == [kind |-> "frame", rows |-> rows]

\* _fetch_fresh once the rows are fetched and processed into df2: the frame
\* is saved and returned.
fetch_fresh_save(d, t, market, lim, df2) ==
    [exc |-> FALSE, df |-> df2, disk |-> save_cache(d, t, market, lim, df2), saved |-> TRUE]

\* _fetch_fresh at time t: the frame returned (exc when an exception
\* escapes), the disk afterwards and whether save_cache ran.
_fetch_fresh(d, t, market, lim, fetched) ==
    IF market \notin FETCHERS
    THEN [exc |-> FALSE, df |-> <<>>, disk |-> d, saved |-> FALSE]
    ELSE IF fetched.kind = "raise"
    THEN [exc |-> TRUE, df |-> <<>>, disk |-> d, saved |-> FALSE]
    ELSE IF fetched.rows = <<>>
    THEN [exc |-> FALSE, df |-> <<>>, disk |-> d, saved |-> FALSE]
    ELSE IF process_dataframe_raises(fetched.rows)
    THEN [exc |-> TRUE, df |-> <<>>, disk |-> d, saved |-> FALSE]
    ELSE CHOOSE r \in {fetch_fresh_save(d, t, market, lim, df2) :
                          df2 \in {process_dataframe(fetched.rows)}} :
             TRUE

\* Steps 2 and 3 of load_with_progress, given what _fetch_fresh did: the
\* live frame if there is one, else the seed rows, else an empty frame.
live_or_seed(live, df_seed, limit) ==
    [kind |-> "returned",
     source |-> IF ~live.exc /\ live.df # <<>> THEN "live"
                ELSE IF df_seed # <<>> THEN "seed" ELSE "none",
     df |-> IF ~live.exc /\ live.df # <<>> THEN live.df ELSE head(df_seed, limit),
     fetch_started |-> TRUE, disk |-> live.disk, saved |-> live.saved]

load_live_or_seed(d, t, market_key, limit, fetched) ==
    CHOOSE r \in {live_or_seed(live, load_from_seed(d, market_key), limit) :
                     live \in {_fetch_fresh(d, t, market_key, limit, fetched)}} :
        TRUE

\* load_with_progress at time t: what the call gives (a frame returned, or
\* the exception that escapes it), whether the live fetch was started, and
\* the disk afterwards.  Line 294 calls is_stale(market_key, limit, hours=24).
load_with_progress(d, t, market_key, limit, fetched) ==
    LET cached_df == load_cached(d, market_key, limit)[1]
    IN  IF cached_df.tag # "none" /\ cached_df.rows # <<>>
           /\ 2 * Len(cached_df.rows) >= limit
        THEN IF call_raises(is_stale_params, {"hours"})
             THEN [kind |-> "raised", source |-> "TypeError", df |-> <<>>,
                   fetch_started |-> FALSE, disk |-> d, saved |-> FALSE]
             ELSE IF ~is_stale(d, t, market_key, limit)
             THEN [kind |-> "returned", source |-> "cache",
                   df |-> head(cached_df.rows, limit),
                   fetch_started |-> FALSE, disk |-> d, saved |-> FALSE]
             ELSE load_live_or_seed(d, t, market_key, limit, fetched)
        ELSE load_live_or_seed(d, t, market_key, limit, fetched)

\* The refresh button: shutil.rmtree of the cache directory.
clear_cache(d) ==
    {f \in d : ~startswith(f.path, CACHE_DIR)}

-----------------------------------------------------------------------------
(* The cache used by one session: every call runs to its end.              *)

\* The rows the fetches and the seed are made of.
CacheRows ==
    << Row(F(20), TECH, F(4), NaN, EmptyDict, None, EmptyDict, None),
       Row(F(10), REIT, F(-1), F(3), EmptyDict, Q(1, 10), EmptyDict, Q(-1, 10)),
       Row(F(20), TECH, NaN, NaN, EmptyDict, None, EmptyDict, None),
       Row(F(20), TECH, F(1), NaN, EmptyDict, None, EmptyDict, None) >>

RawFrame(n) == [i \in 1..n |-> CacheRows[((i - 1) % Len(CacheRows)) + 1]]

\* Numbers of rows fetched: too few to be served from the cache for any
\* limit, and enough for the smaller limit only.
ShortLen == 4

LongLen == 6

\* The number of rows of the seed file: between the two limits.
SeedLen == 12

FrameLens == {ShortLen, LongLen}

Keys == {<<KOREA, 10>>, <<KOREA, 20>>, <<JAPAN, 10>>}

MaxSaves == 1

MaxTicks == 3

TICK == CACHE_TTL \div 2

\* The completed save_cache call number n.
Save(n, market, limit, rows, ts) ==
    [seq |-> n, market |-> market, limit |-> limit, rows |-> rows, ts |-> ts]

InitCache ==
    /\ df = <<>> /\ out = <<>> /\ pc = "loaded"
    /\ fig = NoFigure /\ stats = NoStats /\ table = <<>>
    /\ hide_neg = TRUE /\ use_underval = TRUE
    /\ selected = 1 /\ card = NoCard /\ picks = <<>> /\ ranking = <<>>
    /\ \/ disk = {}
       \/ disk = {[path |-> seed_path(KOREA),
                   content |-> [tag |-> "csv", rows |-> process_dataframe(RawFrame(SeedLen))]]}
    /\ now = 0
    /\ ret = NoReturn
    /\ sess = NoSession
    /\ saved = {}

SaveCache ==
    /\ Cardinality(saved) < MaxSaves
    /\ \E n \in FrameLens :
          \E rows \in {process_dataframe(RawFrame(n))}, k \in Keys :
              /\ disk' = save_cache(disk, now, k[1], k[2], rows)
              /\ saved' = saved \cup {Save(Cardinality(saved) + 1, k[1], k[2], rows, F(now))}
              /\ ret' = [op |-> "save_cache", market |-> k[1], limit |-> k[2]]
    /\ UNCHANGED <<now, sess>>
    /\ UNCHANGED tab_vars

LoadCached ==
    /\ \E k \in Keys :
          ret' = [op |-> "load_cached", market |-> k[1], limit |-> k[2],
                  value |-> load_cached(disk, k[1], k[2])]
    /\ UNCHANGED <<disk, now, sess, saved>>
    /\ UNCHANGED tab_vars

IsStale ==
    /\ \E k \in Keys :
          ret' = [op |-> "is_stale", market |-> k[1], limit |-> k[2],
                  value |-> is_stale(disk, now, k[1], k[2])]
    /\ UNCHANGED <<disk, now, sess, saved>>
    /\ UNCHANGED tab_vars

Tick ==
    /\ now < MaxTicks * TICK
    /\ now' = now + TICK
    /\ UNCHANGED <<disk, ret, sess, saved>>
    /\ UNCHANGED tab_vars

LoadWithProgress ==
    /\ \E k \in Keys, fetched \in {FetchRaised} \cup {Fetched(RawFrame(n)) : n \in {0} \cup FrameLens} :
          \E r \in {load_with_progress(disk, now, k[1], k[2], fetched)} :
              /\ r.saved => Cardinality(saved) < MaxSaves
              /\ disk' = r.disk
              /\ saved' = IF r.saved
                          THEN saved \cup {Save(Cardinality(saved) + 1, k[1], k[2], r.df, F(now))}
                          ELSE saved
              /\ ret' = [op |-> "load_with_progress", market |-> k[1], limit |-> k[2],
                         kind |-> r.kind, source |-> r.source, df |-> r.df,
                         fetch_started |-> r.fetch_started, fetched |-> fetched]
    /\ UNCHANGED <<now, sess>>
    /\ UNCHANGED tab_vars

ClearCache ==
    /\ disk' = clear_cache(disk)
    /\ saved' = {}
    /\ saved # {}
    /\ ret' = [op |-> "clear_cache"]
    /\ UNCHANGED <<now, sess>>
    /\ UNCHANGED tab_vars

NextCache == SaveCache \/ LoadCached \/ IsStale \/ Tick \/ LoadWithProgress \/ ClearCache

SpecCache == InitCache /\ [][NextCache]_vars

-----------------------------------------------------------------------------
(* Properties of the cache (specification SpecCache)                       *)

SavesOf(market, limit) == {s \in saved : s.market = market /\ s.limit = limit}

HasSave(market, limit) == SavesOf(market, limit) # {}

\* The last save_cache call of a key that completed.
LatestSave(market, limit) ==
    CHOOSE s \in SavesOf(market, limit) : \A o \in SavesOf(market, limit) : o.seq <= s.seq

\* Seconds from the save s to the time t.
Age(s, t) == t - s.ts.num

\* A cache that load_with_progress is to serve: not empty, at least limit / 2
\* rows, not older than 24 hours.
Servable(market, limit, t) ==
    /\ HasSave(market, limit)
    /\ LET s == LatestSave(market, limit)
       IN  /\ s.rows # <<>>
           /\ 2 * Len(s.rows) >= limit
           /\ Age(s, t) <= 24 * 3600

\* C27: load_with_progress tries the disk cache, then the live fetch, then the
\* seed: with a servable cache it returns the first `limit` cached rows and
\* starts no live fetch; otherwise it returns the live frame if that is not
\* empty; otherwise the seed rows truncated to `limit`; otherwise an empty
\* frame.
Cex_C27_CacheThenLiveThenSeed ==
    [][ret' # ret /\ ret'.op = "load_with_progress" =>
          LET m    == ret'.market
              l    == ret'.limit
              live == IF ret'.fetched.kind = "raise" THEN <<>>
                      ELSE process_dataframe(ret'.fetched.rows)
              seed == load_from_seed(disk, m)
          IN  /\ ret'.kind = "returned"
              /\ IF Servable(m, l, now)
                 THEN /\ ret'.df = head(LatestSave(m, l).rows, l)
                      /\ ~ret'.fetch_started
                 ELSE IF live # <<>> THEN ret'.df = live
                 ELSE ret'.df = head(seed, l)]_vars

\* C28: after save_cache(market, limit, df) load_cached(market, limit) returns
\* df with the timestamp of the save, and is_stale(market, limit) is false
\* until more than 86400 seconds have passed since the save; is_stale is true
\* without a cache file and without a timestamp; a key that was not saved
\* loads nothing, whatever was saved under the other keys.
Thm_C28_SaveLoadRoundTrip ==
    /\ \A k \in Keys :
          /\ IF HasSave(k[1], k[2])
             THEN LET s == LatestSave(k[1], k[2])
                  IN  /\ load_cached(disk, k[1], k[2]) = <<Pickled(s.rows), s.ts>>
                      /\ is_stale(disk, now, k[1], k[2]) <=> Age(s, now) > 86400
             ELSE /\ load_cached(disk, k[1], k[2]) = <<None, None>>
                  /\ is_stale(disk, now, k[1], k[2])
          /\ is_stale({f \in disk : f.path # _meta_path(k[1], k[2])}, now, k[1], k[2])
    /\ ret.op = "load_cached" =>
          ret.value = IF HasSave(ret.market, ret.limit)
                      THEN <<Pickled(LatestSave(ret.market, ret.limit).rows),
                             LatestSave(ret.market, ret.limit).ts>>
                      ELSE <<None, None>>

\* A cache saved exactly 86400 seconds ago is reported as not stale while
\* another key, never saved, loads nothing.
Wit_C28_NotStaleAtTtl ==
    /\ ret.op = "is_stale" /\ ~ret.value
    /\ HasSave(ret.market, ret.limit)
    /\ Age(LatestSave(ret.market, ret.limit), now) = 86400
    /\ \E k \in Keys : ~HasSave(k[1], k[2]) /\ load_cached(disk, k[1], k[2]) = <<None, None>>

-----------------------------------------------------------------------------
(* The cache used by two sessions at once: one runs save_cache, the other  *)
(* load_cached, on the same key; a step is one file operation.             *)

RaceMarket == KOREA

RaceLimit == 10

MaxRaceSaves == 2

InitRace ==
    /\ df = <<>> /\ out = <<>> /\ pc = "loaded"
    /\ fig = NoFigure /\ stats = NoStats /\ table = <<>>
    /\ hide_neg = TRUE /\ use_underval = TRUE
    /\ selected = 1 /\ card = NoCard /\ picks = <<>> /\ ranking = <<>>
    /\ disk = {}
    /\ now = 0
    /\ ret = NoReturn
    /\ sess = NoSession
    /\ saved = {}

\* save_cache, line 57: df.to_pickle(cp) opens the data file for writing.
SaveOpenData ==
    /\ sess.saver.pc = "idle"
    /\ Cardinality(saved) < MaxRaceSaves
    /\ \E n \in FrameLens :
          sess' = [sess EXCEPT !.saver = [pc |-> "data_open",
                                          rows |-> process_dataframe(RawFrame(n))]]
    /\ disk' = write(disk, _cache_path(RaceMarket, RaceLimit), Partial)
    /\ UNCHANGED <<now, ret, saved>>
    /\ UNCHANGED tab_vars

\* save_cache, line 57: the pickle is written and the file closed.
SaveWriteData ==
    /\ sess.saver.pc = "data_open"
    /\ disk' = write(disk, _cache_path(RaceMarket, RaceLimit), Pickled(sess.saver.rows))
    /\ sess' = [sess EXCEPT !.saver.pc = "data_written"]
    /\ UNCHANGED <<now, ret, saved>>
    /\ UNCHANGED tab_vars

\* save_cache, line 58: open(mp, "wb") truncates the metadata file.
SaveOpenMeta ==
    /\ sess.saver.pc = "data_written"
    /\ disk' = write(disk, _meta_path(RaceMarket, RaceLimit), Partial)
    /\ sess' = [sess EXCEPT !.saver.pc = "meta_open"]
    /\ UNCHANGED <<now, ret, saved>>
    /\ UNCHANGED tab_vars

\* save_cache, line 59: the timestamp is taken and dumped; the call returns.
SaveWriteMeta ==
    /\ sess.saver.pc = "meta_open"
    /\ disk' = write(disk, _meta_path(RaceMarket, RaceLimit), Meta(F(now)))
    /\ saved' = saved \cup {Save(Cardinality(saved) + 1, RaceMarket, RaceLimit,
                                 sess.saver.rows, F(now))}
    /\ sess' = [sess EXCEPT !.saver = [pc |-> "idle"]]
    /\ UNCHANGED <<now, ret>>
    /\ UNCHANGED tab_vars

\* load_cached, lines 36-40: without a data file (None, None) is returned;
\* a file that does not unpickle raises, which gives (None, None) as well;
\* otherwise the frame is read.
LoadReadData ==
    /\ sess.loader.pc = "idle"
    /\ LET cp == _cache_path(RaceMarket, RaceLimit)
       IN  IF ~exists(disk, cp) \/ read(disk, cp).tag # "frame"
           THEN /\ ret' = [op |-> "load_cached", market |-> RaceMarket, limit |-> RaceLimit,
                           value |-> <<None, None>>]
                /\ sess' = sess
           ELSE /\ sess' = [sess EXCEPT !.loader = [pc |-> "data_read", df |-> read(disk, cp)]]
                /\ ret' = NoReturn
    /\ UNCHANGED <<disk, now, saved>>
    /\ UNCHANGED tab_vars

\* load_cached, lines 41-48: the timestamp is read if the metadata file
\* exists, and the pair is returned.
LoadReadMeta ==
    /\ sess.loader.pc = "data_read"
    /\ LET mp == _meta_path(RaceMarket, RaceLimit)
           value == IF ~exists(disk, mp) THEN <<sess.loader.df, None>>
                    ELSE IF read(disk, mp).tag # "meta" THEN <<None, None>>
                    ELSE <<sess.loader.df, read(disk, mp).timestamp>>
       IN  ret' = [op |-> "load_cached", market |-> RaceMarket, limit |-> RaceLimit,
                   value |-> value]
    /\ sess' = [sess EXCEPT !.loader = [pc |-> "idle"]]
    /\ UNCHANGED <<disk, now, saved>>
    /\ UNCHANGED tab_vars

NextRace ==
    \/ SaveOpenData \/ SaveWriteData \/ SaveOpenMeta \/ SaveWriteMeta
    \/ LoadReadData \/ LoadReadMeta
    \/ Tick

SpecRace == InitRace /\ [][NextRace]_vars

\* C29: under any interleaving of save_cache and load_cached on one key,
\* a frame that load_cached returns comes with the timestamp of the save
\* that wrote it: never with the timestamp of another save, never with none.
Cex_C29_DataAndTimestampOfOneSave ==
    (ret.op = "load_cached" /\ ret.value[1] # None) =>
        \E s \in saved : ret.value = <<Pickled(s.rows), s.ts>>

-----------------------------------------------------------------------------
(* Frames of more than 50 rows: strong picks and the ranking               *)

\* Row number i of a fetched index: market caps 1..60 over cash flows 1..4,
\* every 27th row without a cash flow, rising revenue on the even rows,
\* rising cash flow on every third row.
RankRow(i) ==
    Row(F(1 + ((7 * i) % 60)), TECH,
        IF i % 27 = 0 THEN NaN ELSE F(1 + (i % 4)), NaN,
        IF i % 2 = 0 THEN Rising ELSE EmptyDict, None,
        IF i % 3 = 0 THEN Rising ELSE EmptyDict, None)

RankFrame(n, first) == [i \in 1..n |-> RankRow(first + i - 1)]

MaxRankRows == 54

MaxRankFirst == 8

InitRanking ==
    /\ \E n \in TOP_N..MaxRankRows, first \in 1..MaxRankFirst : df = RankFrame(n, first)
    /\ out = <<>>
    /\ pc = "loaded"
    /\ fig = NoFigure
    /\ stats = NoStats
    /\ table = <<>>
    /\ hide_neg \in BOOLEAN
    /\ use_underval \in BOOLEAN
    /\ selected = 1
    /\ card = NoCard
    /\ picks = <<>>
    /\ ranking = <<>>
    /\ CacheUnused

SpecRanking == InitRanking /\ [][NextTab]_vars

IsPick(r) ==
    /\ r.pcf.tag = "float" /\ r.pcf.num <= 10 * r.pcf.den
    /\ r.revenue_trend = "Uptrend" /\ r.cf_trend = "Uptrend"

Uptrends(r) ==
    (IF r.revenue_trend = "Uptrend" THEN 1 ELSE 0) + (IF r.cf_trend = "Uptrend" THEN 1 ELSE 0)

\* s = p * 0.8^k
IsScore(s, p, k) ==
    s.num * p.den * (IF k = 0 THEN 1 ELSE IF k = 1 THEN 5 ELSE 25)
        = p.num * s.den * (IF k = 0 THEN 1 ELSE IF k = 1 THEN 4 ELSE 16)

\* C30: of an enriched batch, the strong picks are exactly the rows with
\* pcf <= 10 and both trends Uptrend, each with a valued, strictly positive
\* pcf and so graded Undervalued; the ranking has at most 50 rows, each with
\* pcf > 0, in non-decreasing order of score, the score being pcf times 0.8
\* for each of the two trends that is Uptrend.
Thm_C30_PicksAndRanking ==
    Rendered =>
        /\ {picks[k] : k \in 1..Len(picks)} = {i \in 1..Len(out) : IsPick(out[i])}
        /\ Len(picks) = Cardinality({i \in 1..Len(out) : IsPick(out[i])})
        /\ \A k \in 1..Len(picks) :
              /\ out[picks[k]].pcf.tag = "float" /\ out[picks[k]].pcf.num > 0
              /\ Bucket(out[picks[k]].pcf) = "Undervalued"
        /\ Len(ranking) <= 50
        /\ \A k \in 1..Len(ranking) :
              LET r == out[ranking[k].idx]
              IN  /\ r.pcf.tag = "float" /\ r.pcf.num > 0
                  /\ IsScore(ranking[k].score, r.pcf, Uptrends(r))
        /\ \A k \in 1..(Len(ranking) - 1) : ~FLt(ranking[k + 1].score, ranking[k].score)
        /\ \A j, k \in 1..Len(ranking) : ranking[j].idx = ranking[k].idx => j = k

\* A batch with more than 50 rows of positive pcf: the ranking has 50 rows,
\* there is a strong pick, and a row with one Uptrend is ranked by 0.8 pcf.
Wit_C30_FiftyOfMore ==
    /\ Rendered
    /\ Cardinality({i \in 1..Len(out) : out[i].pcf.tag = "float" /\ out[i].pcf.num > 0}) > 50
    /\ Len(ranking) = 50
    /\ Len(picks) > 0
    /\ \E k \in 1..Len(ranking) :
          /\ Uptrends(out[ranking[k].idx]) = 1
          /\ ranking[k].score = FMul(out[ranking[k].idx].pcf, Q(4, 5))

====
